---------------------------- MODULE Spec2Model ----------------------------
(* A model of libSoX's format-agnostic I/O core, src/src/soxio.c:           *)
(* sessions (sox_format_t) opened for reading or writing, the process-wide  *)
(* standard-stream slots of sox_globals, write negotiation                  *)
(* (set_output_format), seeking and closing.                                *)
EXTENDS Integers, Sequences, FiniteSets, TLC

(***************************************************************************)
(* Bounds of the model.                                                    *)
(***************************************************************************)
\* sessions ever allocated in one behaviour (each xcalloc gets a fresh id)
MaxSessions == 2
\* largest sample count one sox_write call is asked to write
MaxLen == 1
\* cap on the observed output length a behaviour accumulates
MaxOlength == 2
\* longest supported-rate list of a handler drawn for negotiation
MaxRates == 3
\* the most encodings in a handler's format list
MaxFormats == 2
\* the most elements in one typed transfer
MaxElems == 2

(***************************************************************************)
(* Values.                                                                 *)
(***************************************************************************)
NULL == "NULL"
SOX_SUCCESS == "SOX_SUCCESS"
SOX_EOF == "SOX_EOF"
SOX_EFMT == "SOX_EFMT"
\* sox_option_t
SOX_OPTION_NO == "no"
SOX_OPTION_YES == "yes"
SOX_OPTION_DEFAULT == "default"
\* whence values of sox_seek
SOX_SEEK_SET == "SEEK_SET"
Whences == {"SEEK_SET", "SEEK_CUR", "SEEK_END"}
SOX_DEFAULT_RATE == 48000
\* HUGE_VAL, as a rate: above every rate of the model
HUGE_VAL == 1000000

max(a, b) == IF a > b THEN a ELSE b
min(a, b) == IF a < b THEN a ELSE b
OptionOf(b) == IF b THEN SOX_OPTION_YES ELSE SOX_OPTION_NO

\* sox_encoding_t, in the order of the enumeration
SOX_ENCODING_UNKNOWN == 0
SOX_ENCODING_SIGN2 == 1
SOX_ENCODING_UNSIGNED == 2
SOX_ENCODING_FLOAT == 3
SOX_ENCODING_LOSSLESS == 4
SOX_ENCODING_ULAW == 5
SOX_ENCODING_GSM == 6

(* sox_precision(encoding, bits_per_sample): the achievable precision of a *)
(* pair, a fixed function of encoding family and depth.                    *)
sox_precision(e, s) ==
  CASE e = SOX_ENCODING_SIGN2    -> IF s <= 32 THEN s ELSE 0
    [] e = SOX_ENCODING_UNSIGNED -> IF s \in {8, 16, 24, 32} THEN s ELSE 0
    [] e = SOX_ENCODING_FLOAT    -> IF s = 32 THEN 24 ELSE IF s = 64 THEN 53 ELSE 0
    [] e = SOX_ENCODING_ULAW     -> IF s = 8 THEN 14 ELSE 0
    [] e = SOX_ENCODING_GSM      -> IF s = 0 THEN 16 ELSE 0
    [] OTHER                     -> 0

(***************************************************************************)
(* Format handlers (sox_format_handler_t).  A callback is modelled by its  *)
(* presence; a NULL list is the empty sequence.                            *)
(***************************************************************************)
ZeroHandler ==
  [names |-> <<>>, flags |-> {}, startread |-> FALSE, read |-> FALSE,
   stopread |-> FALSE, startwrite |-> FALSE, write |-> FALSE,
   stopwrite |-> FALSE, seek |-> FALSE, write_rates |-> <<>>,
   write_formats |-> <<>>]

\* the handler flags the core reads
Flags == {"NOSTDIO", "PHONY", "REWIND", "MONO", "STEREO", "QUAD",
          "ENDIAN", "ENDBIG", "BIT_REV", "NIB_REV"}

\* flags & SOX_FILE_CHANS: the handler restricts the channel count
SOX_FILE_CHANS(flags) == flags \cap {"MONO", "STEREO", "QUAD"} # {}

(* The registry: a sample of handlers covering every flag and callback     *)
(* combination the core distinguishes.                                     *)
sox_format_fns ==
  << [ZeroHandler EXCEPT !.names = <<"wav">>, !.flags = {"REWIND", "ENDIAN"},
        !.startread = TRUE, !.read = TRUE, !.stopread = TRUE,
        !.startwrite = TRUE, !.write = TRUE, !.stopwrite = TRUE, !.seek = TRUE,
        !.write_formats = << [e |-> SOX_ENCODING_SIGN2, sizes |-> <<16, 24>>],
                             [e |-> SOX_ENCODING_ULAW, sizes |-> <<8>>] >>],
     [ZeroHandler EXCEPT !.names = <<"au", "snd">>,
        !.flags = {"REWIND", "ENDIAN", "ENDBIG"},
        !.startread = TRUE, !.read = TRUE,
        !.startwrite = TRUE, !.write = TRUE],
     [ZeroHandler EXCEPT !.names = <<"raw">>,
        !.startread = TRUE, !.read = TRUE, !.stopread = TRUE,
        !.write = TRUE, !.stopwrite = TRUE, !.seek = TRUE],
     [ZeroHandler EXCEPT !.names = <<"gsm">>, !.flags = {"MONO"},
        !.startread = TRUE, !.read = TRUE, !.stopread = TRUE,
        !.startwrite = TRUE, !.write = TRUE, !.stopwrite = TRUE,
        !.write_rates = <<8000>>,
        !.write_formats = << [e |-> SOX_ENCODING_GSM, sizes |-> <<>>] >>],
     [ZeroHandler EXCEPT !.names = <<"null">>, !.flags = {"PHONY", "NOSTDIO"},
        !.startread = TRUE, !.read = TRUE, !.write = TRUE],
     [ZeroHandler EXCEPT !.names = <<"xa">>,
        !.startread = TRUE, !.read = TRUE, !.stopread = TRUE],
     [ZeroHandler EXCEPT !.names = <<"lpc">>, !.flags = {"NOSTDIO"},
        !.startwrite = TRUE, !.stopwrite = TRUE],
     [ZeroHandler EXCEPT !.names = <<"sph">>,
        !.startread = TRUE, !.read = TRUE, !.stopread = TRUE,
        !.write_formats = << [e |-> SOX_ENCODING_SIGN2, sizes |-> <<16>>] >>] >>

HasName(h, name) == \E i \in 1..Len(h.names) : h.names[i] = name

(* sox_find_format(name, by_extension): the first registered handler one   *)
(* of whose names is `name`, or none (ZeroHandler stands for NULL).        *)
sox_find_format(name, by_extension) ==
  IF \E i \in 1..Len(sox_format_fns) : HasName(sox_format_fns[i], name)
  THEN sox_format_fns[CHOOSE i \in 1..Len(sox_format_fns) :
         /\ HasName(sox_format_fns[i], name)
         /\ \A j \in 1..(i - 1) : ~HasName(sox_format_fns[j], name)]
  ELSE ZeroHandler

(***************************************************************************)
(* Paths and the file system.                                              *)
(***************************************************************************)
Paths == {"-", "a.wav", "b.raw", "c.gsm", "noext", "d.au", "e.gsm", "f.au"}

\* find_file_extension(path): the text after the last dot, or NULL
find_file_extension(path) ==
  CASE path = "a.wav"   -> "wav"
    [] path = "b.raw"   -> "raw"
    [] path = "c.gsm"   -> "gsm"
    [] path = "d.au"    -> "au"
    [] path = "e.gsm"   -> "gsm"
    [] path = "f.au"    -> "au"
    [] OTHER            -> NULL

\* what a path names: nothing, a fifo, a regular file with its first
\* content, or a regular file emptied by fopen(path, "wb")
FileKinds == {"absent", "fifo", "regular", "truncated"}
InitFs ==
  [p \in Paths \ {"-"} |->
     CASE p = "a.wav" -> "regular"
       [] p = "b.raw" -> "regular"
       [] p = "noext" -> "fifo"
       [] p = "d.au"  -> "regular"
       [] p = "e.gsm" -> "regular"
       [] p = "f.au"  -> "fifo"
       [] OTHER       -> "absent"]

\* the type the first content of a regular file carries in its magic bytes
FileMagic(path) ==
  CASE path = "a.wav" -> "wav"
    [] path = "d.au"  -> "wav"
    [] path = "e.gsm" -> "flac"
    [] OTHER          -> NULL

IsRegular(kind) == kind \in {"regular", "truncated"}

(***************************************************************************)
(* Sessions (sox_format_t).                                                *)
(***************************************************************************)
ZeroSignal == [rate |-> 0, precision |-> 0, channels |-> 0]

ZeroEncoding ==
  [encoding |-> SOX_ENCODING_UNKNOWN, bits_per_sample |-> 0,
   reverse_bytes |-> SOX_OPTION_NO, reverse_bits |-> SOX_OPTION_NO,
   reverse_nibbles |-> SOX_OPTION_NO, opposite_endian |-> FALSE]

\* sox_init_encodinginfo: every order option left to its default
sox_init_encodinginfo ==
  [ZeroEncoding EXCEPT !.reverse_bytes = SOX_OPTION_DEFAULT,
                       !.reverse_bits = SOX_OPTION_DEFAULT,
                       !.reverse_nibbles = SOX_OPTION_DEFAULT]

\* xcalloc(1, sizeof(sox_format_t)): a zeroed session
xcalloc_ft ==
  [state |-> "unused", mode |-> NULL, handler |-> ZeroHandler, fp |-> NULL,
   filename |-> NULL, filetype |-> NULL, seekable |-> FALSE,
   signal |-> ZeroSignal, encoding |-> ZeroEncoding,
   length |-> 0, olength |-> 0, comments |-> 0, sox_errno |-> SOX_SUCCESS]

\* what a session has acquired and released
ZeroRes ==
  [fopen |-> 0, fclose |-> 0, filename_alloc |-> 0, filename_free |-> 0,
   filetype_alloc |-> 0, filetype_free |-> 0, comments_alloc |-> 0,
   comments_free |-> 0, ft_free |-> 0]

Sessions == 1..MaxSessions

VARIABLES
  sox_globals,      \* [stdin_in_use_by, stdout_in_use_by]
  ft,               \* session id -> sox_format_t
  res,              \* session id -> resources acquired and released
  fs,               \* path -> FileKinds
  SOX_IS_BIGENDIAN, \* the machine's byte order
  last,             \* the last call: its name, session, arguments, result
  neg               \* the negotiation under study (SpecNeg)

vars == <<sox_globals, ft, res, fs, SOX_IS_BIGENDIAN, last, neg>>

\* last: the call's name, session and arguments, what it returned (ret, or
\* count for a transfer), why an open failed, the callbacks it invoked in
\* order, the session as it was when sox_seek or sox_close was entered, and
\* for sox_open_read whether the stream was seekable, whether detect_magic
\* was called and what it returned; for both opens the handler the call
\* settled on; for sox_open_write the overwrite callback given ("none" for
\* NULL, else what it answers when asked)
NoCall ==
  [op |-> "none", s |-> 0, path |-> NULL, filetype |-> NULL, ret |-> NULL,
   count |-> 0, why |-> "", calls |-> <<>>, whence |-> NULL, pre |-> xcalloc_ft,
   seekable |-> FALSE, sniffed |-> FALSE, detected |-> NULL, handler |-> ZeroHandler,
   overwrite |-> "none"]

NegIdle == [phase |-> "idle"]


(***************************************************************************)
(* Order resolution, the format check and type lookup.                     *)
(***************************************************************************)
\* a faulty variant of set_endianness_if_not_already_set: an explicit
\* reverse-bytes value is kept even under an opposite-endian request
set_endianness_explicit_first(f) ==
  LET flags == f.handler.flags
      e == f.encoding
      fixed == "ENDIAN" \in flags
      little == "ENDBIG" \notin flags
      rbytes == IF e.reverse_bytes # SOX_OPTION_DEFAULT
                THEN e.reverse_bytes
                ELSE IF e.opposite_endian
                THEN OptionOf(IF fixed THEN little # SOX_IS_BIGENDIAN ELSE TRUE)
                ELSE OptionOf(IF fixed THEN little = SOX_IS_BIGENDIAN ELSE FALSE)
      rep_bytes == IF fixed
                   THEN IF rbytes = OptionOf(little # SOX_IS_BIGENDIAN)
                        THEN <<"overriding file-type byte-order">> ELSE <<>>
                   ELSE IF rbytes = SOX_OPTION_YES
                        THEN <<"overriding machine byte-order">> ELSE <<>>
      rbits == IF e.reverse_bits = SOX_OPTION_DEFAULT
               THEN OptionOf("BIT_REV" \in flags) ELSE e.reverse_bits
      rep_bits == IF e.reverse_bits # SOX_OPTION_DEFAULT
                     /\ e.reverse_bits = OptionOf("BIT_REV" \notin flags)
                  THEN <<"overriding file-type bit-order">> ELSE <<>>
      rnib == IF e.reverse_nibbles = SOX_OPTION_DEFAULT
              THEN OptionOf("NIB_REV" \in flags) ELSE e.reverse_nibbles
      rep_nib == IF e.reverse_nibbles # SOX_OPTION_DEFAULT
                    /\ e.reverse_nibbles = OptionOf("NIB_REV" \notin flags)
                 THEN <<"overriding file-type nibble-order">> ELSE <<>>
  IN [encoding |-> [e EXCEPT !.reverse_bytes = rbytes, !.reverse_bits = rbits,
                             !.reverse_nibbles = rnib],
      reports |-> rep_bytes \o rep_bits \o rep_nib]

\* a faulty variant of set_endianness_if_not_already_set: the bit-order
\* diagnostic is emitted when the caller's value agrees with the handler's flag
set_endianness_bits_misreported(f) ==
  LET flags == f.handler.flags
      e == f.encoding
      fixed == "ENDIAN" \in flags
      little == "ENDBIG" \notin flags
      rbytes == IF e.opposite_endian
                THEN OptionOf(IF fixed THEN little # SOX_IS_BIGENDIAN ELSE TRUE)
                ELSE IF e.reverse_bytes = SOX_OPTION_DEFAULT
                THEN OptionOf(IF fixed THEN little = SOX_IS_BIGENDIAN ELSE FALSE)
                ELSE e.reverse_bytes
      rep_bytes == IF fixed
                   THEN IF rbytes = OptionOf(little # SOX_IS_BIGENDIAN)
                        THEN <<"overriding file-type byte-order">> ELSE <<>>
                   ELSE IF rbytes = SOX_OPTION_YES
                        THEN <<"overriding machine byte-order">> ELSE <<>>
      rbits == IF e.reverse_bits = SOX_OPTION_DEFAULT
               THEN OptionOf("BIT_REV" \in flags) ELSE e.reverse_bits
      rep_bits == IF e.reverse_bits # SOX_OPTION_DEFAULT
                     /\ e.reverse_bits = OptionOf("BIT_REV" \in flags)
                  THEN <<"overriding file-type bit-order">> ELSE <<>>
      rnib == IF e.reverse_nibbles = SOX_OPTION_DEFAULT
              THEN OptionOf("NIB_REV" \in flags) ELSE e.reverse_nibbles
      rep_nib == IF e.reverse_nibbles # SOX_OPTION_DEFAULT
                    /\ e.reverse_nibbles = OptionOf("NIB_REV" \notin flags)
                 THEN <<"overriding file-type nibble-order">> ELSE <<>>
  IN [encoding |-> [e EXCEPT !.reverse_bytes = rbytes, !.reverse_bits = rbits,
                             !.reverse_nibbles = rnib],
      reports |-> rep_bytes \o rep_bits \o rep_nib]

\* a faulty variant of set_endianness_if_not_already_set: the default
\* reverses the bytes of a handler whose order is the machine's
set_endianness_native_reversed(f) ==
  LET flags == f.handler.flags
      e == f.encoding
      fixed == "ENDIAN" \in flags
      little == "ENDBIG" \notin flags
      rbytes == IF e.opposite_endian
                THEN OptionOf(IF fixed THEN little # SOX_IS_BIGENDIAN ELSE TRUE)
                ELSE IF e.reverse_bytes = SOX_OPTION_DEFAULT
                THEN OptionOf(IF fixed THEN little # SOX_IS_BIGENDIAN ELSE FALSE)
                ELSE e.reverse_bytes
      rep_bytes == IF fixed
                   THEN IF rbytes = OptionOf(little # SOX_IS_BIGENDIAN)
                        THEN <<"overriding file-type byte-order">> ELSE <<>>
                   ELSE IF rbytes = SOX_OPTION_YES
                        THEN <<"overriding machine byte-order">> ELSE <<>>
      rbits == IF e.reverse_bits = SOX_OPTION_DEFAULT
               THEN OptionOf("BIT_REV" \in flags) ELSE e.reverse_bits
      rep_bits == IF e.reverse_bits # SOX_OPTION_DEFAULT
                     /\ e.reverse_bits = OptionOf("BIT_REV" \notin flags)
                  THEN <<"overriding file-type bit-order">> ELSE <<>>
      rnib == IF e.reverse_nibbles = SOX_OPTION_DEFAULT
              THEN OptionOf("NIB_REV" \in flags) ELSE e.reverse_nibbles
      rep_nib == IF e.reverse_nibbles # SOX_OPTION_DEFAULT
                    /\ e.reverse_nibbles = OptionOf("NIB_REV" \notin flags)
                 THEN <<"overriding file-type nibble-order">> ELSE <<>>
  IN [encoding |-> [e EXCEPT !.reverse_bytes = rbytes, !.reverse_bits = rbits,
                             !.reverse_nibbles = rnib],
      reports |-> rep_bytes \o rep_bits \o rep_nib]

(* set_endianness_if_not_already_set(ft): the resolved encoding and the    *)
(* sox_report diagnostics emitted, from the handler flags, the caller's    *)
(* options and the machine's byte order.                                   *)
set_endianness_if_not_already_set(f) ==
  LET flags == f.handler.flags
      e == f.encoding
      fixed == "ENDIAN" \in flags
      little == "ENDBIG" \notin flags
      rbytes == IF e.opposite_endian
                THEN OptionOf(IF fixed THEN little # SOX_IS_BIGENDIAN ELSE TRUE)
                ELSE IF e.reverse_bytes = SOX_OPTION_DEFAULT
                THEN OptionOf(IF fixed THEN little = SOX_IS_BIGENDIAN ELSE FALSE)
                ELSE e.reverse_bytes
      rep_bytes == IF fixed
                   THEN IF rbytes = OptionOf(little # SOX_IS_BIGENDIAN)
                        THEN <<"overriding file-type byte-order">> ELSE <<>>
                   ELSE IF rbytes = SOX_OPTION_YES
                        THEN <<"overriding machine byte-order">> ELSE <<>>
      rbits == IF e.reverse_bits = SOX_OPTION_DEFAULT
               THEN OptionOf("BIT_REV" \in flags) ELSE e.reverse_bits
      rep_bits == IF e.reverse_bits # SOX_OPTION_DEFAULT
                     /\ e.reverse_bits = OptionOf("BIT_REV" \notin flags)
                  THEN <<"overriding file-type bit-order">> ELSE <<>>
      rnib == IF e.reverse_nibbles = SOX_OPTION_DEFAULT
              THEN OptionOf("NIB_REV" \in flags) ELSE e.reverse_nibbles
      rep_nib == IF e.reverse_nibbles # SOX_OPTION_DEFAULT
                    /\ e.reverse_nibbles = OptionOf("NIB_REV" \notin flags)
                 THEN <<"overriding file-type nibble-order">> ELSE <<>>
  IN [encoding |-> [e EXCEPT !.reverse_bytes = rbytes, !.reverse_bits = rbits,
                             !.reverse_nibbles = rnib],
      reports |-> rep_bytes \o rep_bits \o rep_nib]

\* is_seekable(ft): the stream is a regular file
is_seekable(fp, path, fsys, stdio_regular) ==
  IF fp \in {"stdin", "stdout"} THEN stdio_regular ELSE IsRegular(fsys[path])

\* sox_checkformat(ft): rate and precision have both been given
sox_checkformat(f) ==
  IF f.signal.rate = 0 \/ f.signal.precision = 0
  THEN [ft |-> [f EXCEPT !.sox_errno = SOX_EFMT], rc |-> SOX_EOF]
  ELSE [ft |-> [f EXCEPT !.sox_errno = SOX_SUCCESS], rc |-> SOX_SUCCESS]

\* sox_gettype(ft, is_file_extension): resolve ft->filetype to a handler
sox_gettype(f, is_file_extension) ==
  IF f.filetype = NULL
  THEN [ft |-> [f EXCEPT !.sox_errno = SOX_EFMT], rc |-> SOX_EFMT]
  ELSE LET handler == sox_find_format(f.filetype, is_file_extension) IN
    IF handler = ZeroHandler
    THEN [ft |-> [f EXCEPT !.sox_errno = SOX_EFMT], rc |-> SOX_EFMT]
    ELSE IF f.mode = "w" /\ ~handler.startwrite /\ ~handler.write
    THEN [ft |-> [f EXCEPT !.handler = handler, !.sox_errno = SOX_EFMT],
          rc |-> SOX_EFMT]
    ELSE [ft |-> [f EXCEPT !.handler = handler], rc |-> SOX_SUCCESS]

(***************************************************************************)
(* What the environment decides in a call: whether a standard stream is a  *)
(* regular file and what its content sniffs as, whether fopen and setvbuf  *)
(* succeed, and what a handler hook returns and writes into the session.   *)
(***************************************************************************)
HookSignals ==
  {[rate |-> 0, precision |-> 0, channels |-> 0],
   [rate |-> 8000, precision |-> 16, channels |-> 0],
   [rate |-> 0, precision |-> 0, channels |-> 1],
   [rate |-> 8000, precision |-> 16, channels |-> 1]}
ReturnCodes == {SOX_SUCCESS, SOX_EOF}

\* a start hook's writes to the session: each signal field kept or set
start_hook(f, hook) ==
  [f EXCEPT !.signal =
     [rate |-> IF hook.rate # 0 THEN hook.rate ELSE @.rate,
      precision |-> IF hook.precision # 0 THEN hook.precision ELSE @.precision,
      channels |-> IF hook.channels # 0 THEN hook.channels ELSE @.channels]]

Call(hook, rc) == [hook |-> hook, rc |-> rc]

(***************************************************************************)
(* The opens work on a context c: the session under construction, the      *)
(* globals, the file system, the local filetype, whether this call         *)
(* fopen'ed a stream, the callbacks invoked, the diagnostics emitted, and  *)
(* why the call failed ("" while it has not).                              *)
(***************************************************************************)
NewCtx(g, fsys, filetype) ==
  [ft |-> xcalloc_ft, g |-> g, fs |-> fsys, filetype |-> filetype,
   fopen |-> 0, calls |-> <<>>, warns |-> <<>>, why |-> "",
   sniffed |-> FALSE, detected |-> NULL]

Fail(c, why) == [c EXCEPT !.why = why]

\* a faulty variant of stdin_conflict: the slot is never consulted
stdin_conflict_unchecked(g) == FALSE

\* sox_globals.stdin_in_use_by is set
stdin_conflict(g) == g.stdin_in_use_by # NULL

\* lines 257-263: an explicit file type names the handler
open_read_explicit(c) ==
  IF c.filetype = NULL THEN c
  ELSE LET handler == sox_find_format(c.filetype, FALSE) IN
    IF handler = ZeroHandler
    THEN Fail(c, "no handler for given file type")
    ELSE [c EXCEPT !.ft.handler = handler]

\* lines 265-280: claim stdin or open the file, unless the handler does its own I/O
open_read_stream(c, path, env) ==
  IF c.why # "" \/ "NOSTDIO" \in c.ft.handler.flags THEN c
  ELSE IF path = "-"
  THEN IF stdin_conflict(c.g)
       THEN Fail(c, "stdin already in use")
       ELSE [c EXCEPT !.g.stdin_in_use_by = "audio input", !.ft.fp = "stdin",
                      !.ft.seekable = is_seekable("stdin", path, c.fs, env.stdio_regular)]
  ELSE IF c.fs[path] = "absent"
  THEN Fail(c, "can't open input file")
  ELSE [c EXCEPT !.ft.fp = "file", !.fopen = 1,
                 !.ft.seekable = is_seekable("file", path, c.fs, env.stdio_regular)]

\* detect_magic on the session's stream: the type its content carries, or NULL
sniffed_type(f, path, fsys, env) ==
  IF f.fp = "stdin" THEN env.stdin_magic
  ELSE IF fsys[path] = "regular" THEN FileMagic(path) ELSE NULL

\* a faulty variant of open_read_detect: a known extension is preferred to
\* the content of the stream
open_read_detect_extension_first(c, path, env) ==
  IF c.why # "" \/ c.filetype # NULL THEN c
  ELSE LET ext == find_file_extension(path)
           detected == IF c.ft.seekable
                       THEN sniffed_type(c.ft, path, c.fs, env) ELSE NULL
           c1 == [c EXCEPT !.sniffed = c.ft.seekable, !.detected = detected] IN
    IF ext # NULL /\ sox_find_format(ext, TRUE) # ZeroHandler
    THEN [c1 EXCEPT !.filetype = ext, !.ft.handler = sox_find_format(ext, TRUE)]
    ELSE IF detected # NULL /\ sox_find_format(detected, FALSE) # ZeroHandler
    THEN [c1 EXCEPT !.filetype = detected,
                    !.ft.handler = sox_find_format(detected, FALSE)]
    ELSE Fail(c1, "can't determine type")

\* lines 282-305: with no type given, sniff a seekable stream, else use the extension
open_read_detect(c, path, env) ==
  IF c.why # "" \/ c.filetype # NULL THEN c
  ELSE LET detected == IF c.ft.seekable
                       THEN sniffed_type(c.ft, path, c.fs, env) ELSE NULL
           c1 == [c EXCEPT !.sniffed = c.ft.seekable, !.detected = detected] IN
    IF detected # NULL
    THEN LET handler == sox_find_format(detected, FALSE) IN
      IF handler = ZeroHandler
      THEN Fail([c1 EXCEPT !.filetype = detected], "no handler for detected file type")
      ELSE [c1 EXCEPT !.filetype = detected, !.ft.handler = handler]
    ELSE LET ext == find_file_extension(path) IN
      IF ext = NULL THEN Fail(c1, "can't determine type")
      ELSE LET handler == sox_find_format(ext, TRUE) IN
        IF handler = ZeroHandler
        THEN Fail([c1 EXCEPT !.filetype = ext], "no handler for file extension")
        ELSE [c1 EXCEPT !.filetype = ext, !.ft.handler = handler]

\* lines 330-334: defaults filled in after the start hook
open_read_defaults(f) ==
  LET f1 == IF f.signal.precision = 0
            THEN [f EXCEPT !.signal.precision =
                    sox_precision(f.encoding.encoding, f.encoding.bits_per_sample)]
            ELSE f
  IN IF "PHONY" \notin f1.handler.flags /\ f1.signal.channels = 0
     THEN [f1 EXCEPT !.signal.channels = 1]
     ELSE f1

\* lines 306-338: readable handler, caller's settings, start hook, defaults, check
open_read_start(c, path, signal, encoding, env) ==
  IF c.why # "" THEN c
  ELSE IF ~c.ft.handler.startread /\ ~c.ft.handler.read
  THEN Fail(c, "file type isn't readable")
  ELSE
    LET f1 == [c.ft EXCEPT !.mode = "r",
                 !.signal = IF signal # <<>> THEN signal[1] ELSE @,
                 !.encoding = IF encoding # <<>> THEN encoding[1]
                              ELSE sox_init_encodinginfo]
        order == set_endianness_if_not_already_set(f1)
        f2 == [f1 EXCEPT !.encoding = order.encoding,
                         !.filetype = c.filetype, !.filename = path]
        hooked == f2.handler.startread
        f3 == IF hooked THEN start_hook(f2, env.hook) ELSE f2
        c3 == [c EXCEPT !.ft = f3, !.warns = order.reports,
                 !.calls = IF hooked THEN <<Call("startread", env.hook_rc)>> ELSE <<>>]
    IN IF hooked /\ env.hook_rc # SOX_SUCCESS
       THEN Fail(c3, "startread failed")
       ELSE LET chk == sox_checkformat(open_read_defaults(f3)) IN
         IF chk.rc = SOX_SUCCESS
         THEN [c3 EXCEPT !.ft = chk.ft]
         ELSE Fail([c3 EXCEPT !.ft = chk.ft], "bad input format")

sox_open_read(path, signal, encoding, filetype, g, fsys, env) ==
  open_read_start(
    open_read_detect(
      open_read_stream(open_read_explicit(NewCtx(g, fsys, filetype)), path, env),
      path, env),
    path, signal, encoding, env)

(***************************************************************************)
(* set_output_format: write negotiation of rate, channels, encoding and    *)
(* depth against the handler's lists.                                      *)
(***************************************************************************)
\* a faulty variant of rate_pick: any listed rate above `given` replaces it
rate_pick_any_greater(r, given, cur) == r > given

\* line 371: r replaces the rate chosen so far
rate_pick(r, given, cur) == r > given /\ r < cur

\* lines 370-374: the smallest listed rate above `given`, and the largest of the rest
RECURSIVE rate_scan(_, _, _, _, _)
rate_scan(rates, i, given, cur, mx) ==
  IF i > Len(rates) THEN [rate |-> cur, max |-> mx]
  ELSE IF rate_pick(rates[i], given, cur)
       THEN rate_scan(rates, i + 1, given, rates[i], mx)
       ELSE rate_scan(rates, i + 1, given, cur, max(rates[i], mx))

\* lines 356-382
set_output_rate(h, rate) ==
  IF h.write_rates # <<>>
  THEN IF rate = 0
       THEN [rate |-> h.write_rates[1], warns |-> <<>>]
       ELSE IF \E i \in 1..Len(h.write_rates) : h.write_rates[i] = rate
       THEN [rate |-> rate, warns |-> <<>>]
       ELSE LET sc == rate_scan(h.write_rates, 1, rate, HUGE_VAL, 0) IN
         [rate |-> IF sc.rate = HUGE_VAL THEN sc.max ELSE sc.rate,
          warns |-> <<"can't encode at rate">>]
  ELSE [rate |-> IF rate = 0 THEN SOX_DEFAULT_RATE ELSE rate, warns |-> <<>>]

\* a faulty variant of set_output_channels: a restricted handler gets mono
\* for any count it cannot take
set_output_channels_mono(flags, channels) ==
  IF SOX_FILE_CHANS(flags)
  THEN IF (channels = 1 /\ "MONO" \notin flags)
          \/ (channels = 2 /\ "STEREO" \notin flags)
          \/ (channels = 4 /\ "QUAD" \notin flags)
       THEN [channels |-> 1, warns |-> <<"can't encode channels">>]
       ELSE [channels |-> channels, warns |-> <<>>]
  ELSE [channels |-> max(channels, 1), warns |-> <<>>]

\* lines 384-397
set_output_channels(flags, channels) ==
  IF SOX_FILE_CHANS(flags)
  THEN IF channels = 1 /\ "MONO" \notin flags
       THEN [channels |-> IF "STEREO" \in flags THEN 2 ELSE 4,
             warns |-> <<"can't encode mono">>]
       ELSE IF channels = 2 /\ "STEREO" \notin flags
       THEN [channels |-> IF "QUAD" \in flags THEN 4 ELSE 1,
             warns |-> <<"can't encode stereo">>]
       ELSE IF channels = 4 /\ "QUAD" \notin flags
       THEN [channels |-> IF "STEREO" \in flags THEN 2 ELSE 1,
             warns |-> <<"can't encode quad">>]
       ELSE [channels |-> channels, warns |-> <<>>]
  ELSE [channels |-> max(channels, 1), warns |-> <<>>]

\* the (encoding, size) pairs of a write_formats list in list order; with
\* terminators, each encoding's closing 0 is a pair too (the do-while of line 477)
RECURSIVE FormatPairs(_, _, _)
FormatPairs(formats, i, terminators) ==
  IF i > Len(formats) THEN <<>>
  ELSE [j \in 1..Len(formats[i].sizes) |-> [e |-> formats[i].e, s |-> formats[i].sizes[j]]]
       \o (IF terminators THEN <<[e |-> formats[i].e, s |-> 0]>> ELSE <<>>)
       \o FormatPairs(formats, i + 1, terminators)

\* lines 403-408: the first entry of the list for encoding e, or 0
FindEncoding(formats, e) ==
  IF \E i \in 1..Len(formats) : formats[i].e = e
  THEN CHOOSE i \in 1..Len(formats) :
         formats[i].e = e /\ \A j \in 1..(i - 1) : formats[j].e # e
  ELSE 0

\* lines 421-432: over the sizes of the given encoding
RECURSIVE size_scan(_, _, _, _, _, _)
size_scan(e, sizes, i, precision, given_size, st) ==
  IF i > Len(sizes) THEN st
  ELSE LET s == sizes[i]
           st1 == IF s = given_size THEN [st EXCEPT !.found = TRUE] ELSE st
           st2 == IF sox_precision(e, s) >= precision
                  THEN IF s < st1.bits THEN [st1 EXCEPT !.bits = s] ELSE st1
                  ELSE IF sox_precision(e, s) > st1.max_p
                  THEN [st1 EXCEPT !.max_p = sox_precision(e, s), !.max_p_s = s]
                  ELSE st1
       IN size_scan(e, sizes, i + 1, precision, given_size, st2)

\* a faulty variant of negotiate_given_encoding: a given depth is kept
\* whether or not it is listed
negotiate_given_encoding_keep_size(n) ==
  IF n.ft.encoding.encoding = SOX_ENCODING_UNKNOWN THEN n
  ELSE LET f == n.ft
           k == FindEncoding(f.handler.write_formats, f.encoding.encoding) IN
    IF k = 0
    THEN [ft |-> [f EXCEPT !.encoding.encoding = SOX_ENCODING_UNKNOWN],
          warns |-> n.warns \o <<"can't encode encoding">>]
    ELSE LET given_size == f.encoding.bits_per_sample
             st == size_scan(f.encoding.encoding, f.handler.write_formats[k].sizes, 1,
                             f.signal.precision, given_size,
                             [bits |-> 65, max_p |-> 0, max_p_s |-> 0, found |-> FALSE])
         IN [ft |-> [f EXCEPT !.encoding.bits_per_sample =
                       IF given_size # 0 THEN given_size
                       ELSE IF st.bits = 65 THEN st.max_p_s ELSE st.bits],
             warns |-> n.warns \o (IF given_size # 0 /\ ~st.found
                                   THEN <<"can't encode to size">> ELSE <<>>)]

\* lines 402-441: an encoding has been given
negotiate_given_encoding(n) ==
  IF n.ft.encoding.encoding = SOX_ENCODING_UNKNOWN THEN n
  ELSE LET f == n.ft
           k == FindEncoding(f.handler.write_formats, f.encoding.encoding) IN
    IF k = 0
    THEN [ft |-> [f EXCEPT !.encoding.encoding = SOX_ENCODING_UNKNOWN],
          warns |-> n.warns \o <<"can't encode encoding">>]
    ELSE LET given_size == f.encoding.bits_per_sample
             st == size_scan(f.encoding.encoding, f.handler.write_formats[k].sizes, 1,
                             f.signal.precision, given_size,
                             [bits |-> 65, max_p |-> 0, max_p_s |-> 0, found |-> FALSE])
         IN [ft |-> [f EXCEPT !.encoding.bits_per_sample =
                       IF given_size # 0 /\ st.found THEN given_size
                       ELSE IF st.bits = 65 THEN st.max_p_s ELSE st.bits],
             warns |-> n.warns \o (IF given_size # 0 /\ ~st.found
                                   THEN <<"can't encode to size">> ELSE <<>>)]

\* lines 447-448: the first entry of the list with the size among its sizes, or 0
FindSize(formats, size) ==
  LET has(i) == \E j \in 1..Len(formats[i].sizes) : formats[i].sizes[j] = size IN
  IF \E i \in 1..Len(formats) : has(i)
  THEN CHOOSE i \in 1..Len(formats) : has(i) /\ \A j \in 1..(i - 1) : ~has(j)
  ELSE 0

\* lines 444-454: only a size has been given
negotiate_given_size(n) ==
  IF n.ft.encoding.encoding # SOX_ENCODING_UNKNOWN \/ n.ft.encoding.bits_per_sample = 0
  THEN n
  ELSE LET k == FindSize(n.ft.handler.write_formats, n.ft.encoding.bits_per_sample) IN
    IF k # 0
    THEN [n EXCEPT !.ft.encoding.encoding = n.ft.handler.write_formats[k].e]
    ELSE [ft |-> [n.ft EXCEPT !.encoding.bits_per_sample = 0],
          warns |-> n.warns \o <<"can't encode to size">>]

\* lines 460-466: the smallest lossless pair reaching the precision
RECURSIVE lossless_scan(_, _, _, _)
lossless_scan(pairs, i, precision, st) ==
  IF i > Len(pairs) THEN st
  ELSE lossless_scan(pairs, i + 1, precision,
         IF pairs[i].e < SOX_ENCODING_LOSSLESS
            /\ sox_precision(pairs[i].e, pairs[i].s) >= precision
            /\ pairs[i].s < st.bits
         THEN [st EXCEPT !.encoding = pairs[i].e, !.bits = pairs[i].s] ELSE st)

\* lines 476-490: the smallest pair of any encoding reaching the precision,
\* and the pair of the highest precision below it
RECURSIVE lossy_scan(_, _, _, _)
lossy_scan(pairs, i, precision, st) ==
  IF i > Len(pairs) THEN st
  ELSE lossy_scan(pairs, i + 1, precision,
         IF sox_precision(pairs[i].e, pairs[i].s) >= precision
         THEN IF pairs[i].s < st.bits
              THEN [st EXCEPT !.encoding = pairs[i].e, !.bits = pairs[i].s] ELSE st
         ELSE IF sox_precision(pairs[i].e, pairs[i].s) > st.max_p
         THEN [st EXCEPT !.max_p = sox_precision(pairs[i].e, pairs[i].s),
                         !.max_p_e = pairs[i].e, !.max_p_s = pairs[i].s]
         ELSE st)

\* lines 491-494: the pair found, or the pair of the highest precision
lossy_result(f, b) ==
  IF b.encoding # SOX_ENCODING_UNKNOWN
  THEN [f EXCEPT !.encoding.encoding = b.encoding, !.encoding.bits_per_sample = b.bits]
  ELSE [f EXCEPT !.encoding.encoding = b.max_p_e, !.encoding.bits_per_sample = b.max_p_s]

\* lines 471-495, entered with the lossless search's result a
lossy_search(f, a) ==
  IF a.encoding # SOX_ENCODING_UNKNOWN
  THEN [f EXCEPT !.encoding.encoding = a.encoding, !.encoding.bits_per_sample = a.bits]
  ELSE lossy_result(f,
         lossy_scan(FormatPairs(f.handler.write_formats, 1, TRUE), 1,
                    f.signal.precision,
                    [encoding |-> SOX_ENCODING_UNKNOWN, bits |-> a.bits, max_p |-> 0,
                     max_p_e |-> SOX_ENCODING_UNKNOWN, max_p_s |-> 0]))

\* lines 457-495: neither encoding nor size is left
negotiate_search(n) ==
  IF n.ft.encoding.encoding # SOX_ENCODING_UNKNOWN THEN n
  ELSE [n EXCEPT !.ft =
          lossy_search(n.ft,
            lossless_scan(FormatPairs(n.ft.handler.write_formats, 1, FALSE), 1,
                          n.ft.signal.precision,
                          [encoding |-> SOX_ENCODING_UNKNOWN, bits |-> 65]))]

\* a faulty variant of clamp_precision: the requested precision is kept
clamp_precision_kept(n) == n

\* line 496: the precision never exceeds what the chosen pair achieves
clamp_precision(n) ==
  [n EXCEPT !.ft.signal.precision =
     min(@, sox_precision(n.ft.encoding.encoding, n.ft.encoding.bits_per_sample))]

\* lines 356-397, on the session and the warnings so far
negotiate_rate(n) ==
  LET r == set_output_rate(n.ft.handler, n.ft.signal.rate) IN
  [ft |-> [n.ft EXCEPT !.signal.rate = r.rate], warns |-> n.warns \o r.warns]

negotiate_channels(n) ==
  LET c == set_output_channels(n.ft.handler.flags, n.ft.signal.channels) IN
  [ft |-> [n.ft EXCEPT !.signal.channels = c.channels], warns |-> n.warns \o c.warns]

\* lines 399-496
negotiate_formats(n) ==
  IF n.ft.handler.write_formats = <<>> THEN n
  ELSE clamp_precision(negotiate_search(negotiate_given_size(negotiate_given_encoding(n))))

\* lines 349-498: the session after negotiation, and the warnings emitted
set_output_format(f) ==
  negotiate_formats(negotiate_channels(negotiate_rate([ft |-> f, warns |-> <<>>])))

(***************************************************************************)
(* sox_open_write.                                                         *)
(***************************************************************************)
\* sox_globals.stdout_in_use_by is set
stdout_conflict(g) == g.stdout_in_use_by # NULL

\* lines 550-566: the owned strings, the handler, the caller's settings
open_write_type(c, path, signal, encoding) ==
  LET f1 == [c.ft EXCEPT !.filename = path,
               !.filetype = IF c.filetype = NULL THEN find_file_extension(path)
                            ELSE c.filetype,
               !.mode = "w"]
      gt == sox_gettype(f1, c.filetype = NULL)
  IN IF gt.rc # SOX_SUCCESS
     THEN Fail([c EXCEPT !.ft = gt.ft], "unknown or unwritable file type")
     ELSE [c EXCEPT !.ft = [gt.ft EXCEPT !.signal = signal[1],
                              !.encoding = IF encoding # <<>> THEN encoding[1]
                                           ELSE sox_init_encodinginfo]]

\* a faulty variant of overwrite_asked: the callback is asked whatever the
\* path names
overwrite_asked_any_target(c, path, overwrite_permitted) ==
  overwrite_permitted # "none"

\* lines 580-581: the caller's callback is asked
overwrite_asked(c, path, overwrite_permitted) ==
  IsRegular(c.fs[path]) /\ overwrite_permitted # "none"

\* a faulty variant of open_write_stream: the file is opened for writing
\* before the callback is asked
open_write_stream_open_first(c, path, overwrite_permitted, env) ==
  IF c.why # "" \/ "NOSTDIO" \in c.ft.handler.flags THEN c
  ELSE
    LET c1 ==
          IF path = "-"
          THEN IF stdout_conflict(c.g)
               THEN Fail(c, "stdout already in use")
               ELSE [c EXCEPT !.g.stdout_in_use_by = "audio output",
                              !.ft.fp = "stdout"]
          ELSE LET asked == overwrite_asked(c, path, overwrite_permitted)
                   c0 == IF asked
                         THEN [c EXCEPT !.calls =
                                 <<Call("overwrite_permitted", overwrite_permitted)>>]
                         ELSE c
               IN IF ~env.fopen_ok
                  THEN Fail(c0, "can't open output file")
                  ELSE IF asked /\ overwrite_permitted = "deny"
                  THEN Fail([c0 EXCEPT !.ft.fp = "file", !.fopen = 1,
                               !.fs[path] = IF @ = "fifo" THEN "fifo" ELSE "truncated"],
                            "permission to overwrite denied")
                  ELSE [c0 EXCEPT !.ft.fp = "file", !.fopen = 1,
                          !.fs[path] = IF @ = "fifo" THEN "fifo" ELSE "truncated"]
    IN IF c1.why # "" THEN c1
       ELSE IF ~env.setvbuf_ok THEN Fail(c1, "can't set write buffer")
       ELSE [c1 EXCEPT !.ft.seekable =
               is_seekable(c1.ft.fp, path, c1.fs, env.stdio_regular)]

\* lines 568-598: claim stdout or create the file, unless the handler does its own I/O
open_write_stream(c, path, overwrite_permitted, env) ==
  IF c.why # "" \/ "NOSTDIO" \in c.ft.handler.flags THEN c
  ELSE
    LET c1 ==
          IF path = "-"
          THEN IF stdout_conflict(c.g)
               THEN Fail(c, "stdout already in use")
               ELSE [c EXCEPT !.g.stdout_in_use_by = "audio output",
                              !.ft.fp = "stdout"]
          ELSE LET asked == overwrite_asked(c, path, overwrite_permitted)
                   c0 == IF asked
                         THEN [c EXCEPT !.calls =
                                 <<Call("overwrite_permitted", overwrite_permitted)>>]
                         ELSE c
               IN IF asked /\ overwrite_permitted = "deny"
                  THEN Fail(c0, "permission to overwrite denied")
                  ELSE IF ~env.fopen_ok
                  THEN Fail(c0, "can't open output file")
                  ELSE [c0 EXCEPT !.ft.fp = "file", !.fopen = 1,
                          !.fs[path] = IF @ = "fifo" THEN "fifo" ELSE "truncated"]
    IN IF c1.why # "" THEN c1
       ELSE IF ~env.setvbuf_ok THEN Fail(c1, "can't set write buffer")
       ELSE [c1 EXCEPT !.ft.seekable =
               is_seekable(c1.ft.fp, path, c1.fs, env.stdio_regular)]

\* lines 615-617: the declared length scaled by the negotiated rate and channels
adjust_length(length, f, signal) ==
  IF signal.rate # 0 /\ signal.channels # 0
  THEN (2 * length * f.signal.rate * f.signal.channels
          + signal.rate * signal.channels)
       \div (2 * signal.rate * signal.channels)
  ELSE length

\* lines 619-630: the rewind warning, the start hook, the final check
open_write_hook(c, env) ==
  LET hooked == c.ft.handler.startwrite
      c1 == [c EXCEPT !.ft = IF hooked THEN start_hook(@, env.hook) ELSE @,
               !.warns = @ \o (IF "REWIND" \in c.ft.handler.flags /\ c.ft.length = 0
                                  /\ ~c.ft.seekable
                               THEN <<"can't seek in output file">> ELSE <<>>),
               !.calls = @ \o (IF hooked THEN <<Call("startwrite", env.hook_rc)>>
                               ELSE <<>>)]
  IN IF hooked /\ env.hook_rc # SOX_SUCCESS
     THEN Fail(c1, "startwrite failed")
     ELSE IF sox_checkformat(c1.ft).rc = SOX_SUCCESS
     THEN [c1 EXCEPT !.ft = sox_checkformat(@).ft]
     ELSE Fail([c1 EXCEPT !.ft = sox_checkformat(@).ft], "bad format for output file")

\* lines 611-617: negotiation n of the session, and the length it implies
open_write_negotiated(c, n, signal, length) ==
  [c EXCEPT !.ft = [n.ft EXCEPT !.length = adjust_length(length, n.ft, signal)],
            !.warns = @ \o n.warns]

\* line 610: the order resolved into the session
open_write_order(c, order) ==
  [c EXCEPT !.ft.encoding = order.encoding, !.warns = order.reports]

\* lines 600-609: the copy of the comments, the declared length
open_write_meta(c, comments, length) ==
  [c EXCEPT !.ft.comments = comments, !.ft.length = length]

\* lines 600-617 on a context
open_write_negotiate(c, signal, length) ==
  open_write_negotiated(c, set_output_format(c.ft), signal, length)

\* lines 600-630: comments, length, order, negotiation, start hook, check
open_write_start(c, signal, comments, length, env) ==
  IF c.why # "" THEN c
  ELSE open_write_hook(
         open_write_negotiate(
           open_write_order(open_write_meta(c, comments, length),
             set_endianness_if_not_already_set(open_write_meta(c, comments, length).ft)),
           signal[1], length),
         env)

\* path and signal are one-element tuples, or <<>> for a NULL argument
sox_open_write(overwrite_permitted, path, signal, encoding, filetype, comments, length, g, fsys, env) ==
  IF path = <<>> \/ signal = <<>>
  THEN Fail(NewCtx(g, fsys, filetype), "no path or no signal")
  ELSE open_write_start(
         open_write_stream(
           open_write_type(NewCtx(g, fsys, filetype), path[1], signal, encoding),
           path[1], overwrite_permitted, env),
         signal, comments, length, env)

\* a faulty variant of open_error_cleanup: the stream is left open
open_error_cleanup_no_fclose(f, std) ==
  [fclose |-> 0,
   filename_free |-> IF f.filename # NULL THEN 1 ELSE 0,
   filetype_free |-> IF f.filetype # NULL THEN 1 ELSE 0,
   comments_free |-> 0,
   ft_free |-> 1]

(* The error exit of both opens (lines 340-346, 632-638): what is released *)
(* for a session discarded with fields f; std is the standard stream the   *)
(* exit leaves open.                                                       *)
open_error_cleanup(f, std) ==
  [fclose |-> IF f.fp # NULL /\ f.fp # std THEN 1 ELSE 0,
   filename_free |-> IF f.filename # NULL THEN 1 ELSE 0,
   filetype_free |-> IF f.filetype # NULL THEN 1 ELSE 0,
   comments_free |-> 0,
   ft_free |-> 1]

\* the resources an open acquired, and released if it failed
OpenRes(c, std) ==
  LET rel == IF c.why = "" THEN [fclose |-> 0, filename_free |-> 0,
                                 filetype_free |-> 0, comments_free |-> 0,
                                 ft_free |-> 0]
             ELSE open_error_cleanup(c.ft, std)
  IN [fopen |-> c.fopen, fclose |-> rel.fclose,
      filename_alloc |-> IF c.ft.filename # NULL THEN 1 ELSE 0,
      filename_free |-> rel.filename_free,
      filetype_alloc |-> IF c.ft.filetype # NULL THEN 1 ELSE 0,
      filetype_free |-> rel.filetype_free,
      comments_alloc |-> IF c.ft.comments # 0 THEN 1 ELSE 0,
      comments_free |-> rel.comments_free,
      ft_free |-> rel.ft_free]

\* the session as the caller sees it after an open: a failed open's is freed
Opened(c) ==
  IF c.why = "" THEN [c.ft EXCEPT !.state = "open"]
  ELSE [xcalloc_ft EXCEPT !.state = "failed"]

(***************************************************************************)
(* sox_read, sox_write, sox_seek, sox_close.                               *)
(***************************************************************************)
\* lines 641-645: actual is what the handler's read callback returned
sox_read(f, len, actual) ==
  LET got == IF f.handler.read THEN actual ELSE 0 IN
  [ret |-> IF got > len THEN 0 ELSE got,
   calls |-> IF f.handler.read THEN <<Call("read", got)>> ELSE <<>>]

\* a faulty variant of sox_write: the observed length is the last count
sox_write_last_count(f, len, written) ==
  LET ret == IF f.handler.write THEN written ELSE 0 IN
  [ft |-> [f EXCEPT !.olength = ret], ret |-> ret,
   calls |-> IF f.handler.write THEN <<Call("write", ret)>> ELSE <<>>]

\* lines 647-652: written is what the handler's write callback returned
sox_write(f, len, written) ==
  LET ret == IF f.handler.write THEN written ELSE 0 IN
  [ft |-> [f EXCEPT !.olength = @ + ret], ret |-> ret,
   calls |-> IF f.handler.write THEN <<Call("write", ret)>> ELSE <<>>]

\* a faulty variant of sox_seek: every whence mode reaches the callback
sox_seek_any_whence(f, whence, rc) ==
  IF f.seekable /\ f.handler.seek
  THEN [ft |-> f, ret |-> rc, calls |-> <<Call("seek", rc)>>]
  ELSE [ft |-> f, ret |-> SOX_EOF, calls |-> <<>>]

\* lines 840-852: rc is what the handler's seek callback returns
sox_seek(f, whence, rc) ==
  IF whence # SOX_SEEK_SET THEN [ft |-> f, ret |-> SOX_EOF, calls |-> <<>>]
  ELSE IF f.seekable /\ f.handler.seek
  THEN [ft |-> f, ret |-> rc, calls |-> <<Call("seek", rc)>>]
  ELSE [ft |-> f, ret |-> SOX_EOF, calls |-> <<>>]

\* a faulty variant of close_hooks: a rewinding handler whose header needs
\* no patch gets its stop-write hook all the same
close_hooks_always_stop(f, env) ==
  IF f.mode = "r"
  THEN IF f.handler.stopread
       THEN [rc |-> env.hook_rc, calls |-> <<Call("stopread", env.hook_rc)>>]
       ELSE [rc |-> SOX_SUCCESS, calls |-> <<>>]
  ELSE IF "REWIND" \in f.handler.flags /\ f.olength # f.length /\ f.seekable
  THEN IF env.seek_rc = SOX_SUCCESS
       THEN IF f.handler.stopwrite
            THEN [rc |-> env.hook_rc,
                  calls |-> <<Call("sox_seeki", env.seek_rc),
                              Call("stopwrite", env.hook_rc)>>]
            ELSE IF f.handler.startwrite
            THEN [rc |-> env.hook_rc,
                  calls |-> <<Call("sox_seeki", env.seek_rc),
                              Call("startwrite", env.hook_rc)>>]
            ELSE [rc |-> SOX_SUCCESS, calls |-> <<Call("sox_seeki", env.seek_rc)>>]
       ELSE [rc |-> env.seek_rc, calls |-> <<Call("sox_seeki", env.seek_rc)>>]
  ELSE IF f.handler.stopwrite
  THEN [rc |-> env.hook_rc, calls |-> <<Call("stopwrite", env.hook_rc)>>]
  ELSE [rc |-> SOX_SUCCESS, calls |-> <<>>]

\* lines 816-828: the stop hook of a session being closed
close_hooks(f, env) ==
  IF f.mode = "r"
  THEN IF f.handler.stopread
       THEN [rc |-> env.hook_rc, calls |-> <<Call("stopread", env.hook_rc)>>]
       ELSE [rc |-> SOX_SUCCESS, calls |-> <<>>]
  ELSE IF "REWIND" \in f.handler.flags
  THEN IF f.olength # f.length /\ f.seekable
       THEN IF env.seek_rc = SOX_SUCCESS
            THEN IF f.handler.stopwrite
                 THEN [rc |-> env.hook_rc,
                       calls |-> <<Call("sox_seeki", env.seek_rc),
                                   Call("stopwrite", env.hook_rc)>>]
                 ELSE IF f.handler.startwrite
                 THEN [rc |-> env.hook_rc,
                       calls |-> <<Call("sox_seeki", env.seek_rc),
                                   Call("startwrite", env.hook_rc)>>]
                 ELSE [rc |-> SOX_SUCCESS,
                       calls |-> <<Call("sox_seeki", env.seek_rc)>>]
            ELSE [rc |-> env.seek_rc, calls |-> <<Call("sox_seeki", env.seek_rc)>>]
       ELSE [rc |-> SOX_SUCCESS, calls |-> <<>>]
  ELSE IF f.handler.stopwrite
  THEN [rc |-> env.hook_rc, calls |-> <<Call("stopwrite", env.hook_rc)>>]
  ELSE [rc |-> SOX_SUCCESS, calls |-> <<>>]

\* a faulty variant of close_release: only a stream the library opened
\* itself is closed
close_release_own_stream(f) ==
  [fclose |-> IF "NOSTDIO" \notin f.handler.flags /\ f.fp = "file" THEN 1 ELSE 0,
   filename_free |-> IF f.filename # NULL THEN 1 ELSE 0,
   filetype_free |-> IF f.filetype # NULL THEN 1 ELSE 0,
   comments_free |-> IF f.comments # 0 THEN 1 ELSE 0,
   ft_free |-> 1]

\* lines 830-836: what sox_close releases
close_release(f) ==
  [fclose |-> IF "NOSTDIO" \notin f.handler.flags THEN 1 ELSE 0,
   filename_free |-> IF f.filename # NULL THEN 1 ELSE 0,
   filetype_free |-> IF f.filetype # NULL THEN 1 ELSE 0,
   comments_free |-> IF f.comments # 0 THEN 1 ELSE 0,
   ft_free |-> 1]

\* lines 812-838
sox_close(f, env) ==
  LET h == close_hooks(f, env) IN
  [ret |-> h.rc, calls |-> h.calls, release |-> close_release(f)]

Released(r, rel) ==
  [r EXCEPT !.fclose = @ + rel.fclose,
            !.filename_free = @ + rel.filename_free,
            !.filetype_free = @ + rel.filetype_free,
            !.comments_free = @ + rel.comments_free,
            !.ft_free = @ + rel.ft_free]

(***************************************************************************)
(* Actions.  An input profile names the sets a call's arguments and the    *)
(* environment's answers are drawn from.                                   *)
(***************************************************************************)
FileTypes == {NULL, "wav", "au", "raw", "gsm", "null", "xa", "lpc", "bogus"}

Wide ==
  [paths |-> {"-", "a.wav", "b.raw", "c.gsm", "noext"}, types |-> FileTypes,
   signals |-> {<<>>} \cup {<<sg>> : sg \in [rate : {0, 8000}, precision : {0, 16},
                                             channels : {0, 2}]},
   encodings |-> {<<>>},
   hooks |-> HookSignals, regular |-> BOOLEAN, magics |-> {NULL, "wav"},
   oks |-> BOOLEAN, overwrite |-> {"none", "permit", "deny"},
   comments |-> {0, 1}, lengths |-> {0, 1}]

Narrow ==
  [paths |-> {"-", "a.wav"}, types |-> {NULL, "wav", "null", "lpc"},
   signals |-> {<<[rate |-> 8000, precision |-> 16, channels |-> 1]>>},
   encodings |-> {<<>>},
   hooks |-> {ZeroSignal}, regular |-> {FALSE}, magics |-> {NULL},
   oks |-> {TRUE}, overwrite |-> {"none"},
   comments |-> {0}, lengths |-> {0}]

Fresh(s) == ft[s].state = "unused" /\ \A t \in 1..(s - 1) : ft[t].state # "unused"

OpenRead(s, in) ==
  /\ Fresh(s)
  /\ \E path \in in.paths, filetype \in in.types, signal \in in.signals,
        encoding \in in.encodings,
        env \in [stdio_regular : in.regular, stdin_magic : in.magics,
                 hook_rc : ReturnCodes, hook : in.hooks] :
       \* answers a call never asks for are fixed
       /\ path # "-" => ~env.stdio_regular
       /\ ~env.stdio_regular => env.stdin_magic = NULL
       /\ env.hook_rc # SOX_SUCCESS => env.hook = ZeroSignal
       /\ LET c == sox_open_read(path, signal, encoding, filetype, sox_globals, fs, env) IN
            /\ sox_globals' = c.g
            /\ ft' = [ft EXCEPT ![s] = Opened(c)]
            /\ res' = [res EXCEPT ![s] = OpenRes(c, "stdin")]
            /\ fs' = c.fs
            /\ last' = [NoCall EXCEPT !.op = "open_read", !.s = s, !.path = path,
                           !.filetype = filetype,
                           !.ret = IF c.why = "" THEN "ft" ELSE NULL,
                           !.why = c.why, !.calls = c.calls,
                           !.seekable = c.ft.seekable, !.sniffed = c.sniffed,
                           !.detected = c.detected, !.handler = c.ft.handler]
  /\ UNCHANGED <<SOX_IS_BIGENDIAN, neg>>

OpenWrite(s, in) ==
  /\ Fresh(s)
  /\ \E overwrite_permitted \in in.overwrite,
        path \in {<<>>} \cup {<<q>> : q \in in.paths},
        filetype \in in.types, signal \in in.signals, encoding \in in.encodings,
        comments \in in.comments, length \in in.lengths,
        env \in [stdio_regular : in.regular, fopen_ok : in.oks, setvbuf_ok : in.oks,
                 hook_rc : ReturnCodes, hook : in.hooks] :
       \* answers a call never asks for are fixed
       /\ path # <<"-">> => ~env.stdio_regular
       /\ path \in {<<>>, <<"-">>} => env.fopen_ok
       /\ ~env.fopen_ok => env.setvbuf_ok
       /\ env.hook_rc # SOX_SUCCESS => env.hook = ZeroSignal
       /\ ~env.fopen_ok \/ ~env.setvbuf_ok
            => env.hook = ZeroSignal /\ env.hook_rc = SOX_SUCCESS
       /\ path = <<>> \/ signal = <<>>
            => filetype = NULL /\ comments = 0 /\ length = 0 /\ env.setvbuf_ok
       /\ LET c == sox_open_write(overwrite_permitted, path, signal, encoding,
                                  filetype, comments, length, sox_globals, fs, env) IN
            /\ sox_globals' = c.g
            /\ ft' = [ft EXCEPT ![s] = Opened(c)]
            /\ res' = [res EXCEPT ![s] = OpenRes(c, "stdout")]
            /\ fs' = c.fs
            /\ last' = [NoCall EXCEPT !.op = "open_write", !.s = s,
                           !.path = IF path = <<>> THEN NULL ELSE path[1],
                           !.filetype = filetype,
                           !.ret = IF c.why = "" THEN "ft" ELSE NULL,
                           !.why = c.why, !.calls = c.calls,
                           !.handler = c.ft.handler,
                           !.overwrite = overwrite_permitted]
  /\ UNCHANGED <<SOX_IS_BIGENDIAN, neg>>

Read(s) ==
  /\ ft[s].state = "open" /\ ft[s].mode = "r"
  /\ \E len \in 1..MaxLen, actual \in 0..(MaxLen + 1) :
       LET r == sox_read(ft[s], len, actual) IN
         last' = [NoCall EXCEPT !.op = "read", !.s = s, !.count = r.ret,
                     !.calls = r.calls]
  /\ UNCHANGED <<sox_globals, ft, res, fs, SOX_IS_BIGENDIAN, neg>>

Write(s) ==
  /\ ft[s].state = "open" /\ ft[s].mode = "w"
  /\ \E len \in 1..MaxLen, written \in 0..MaxLen :
       /\ written <= len
       /\ ft[s].olength + written <= MaxOlength
       /\ LET r == sox_write(ft[s], len, written) IN
            /\ ft' = [ft EXCEPT ![s] = r.ft]
            /\ last' = [NoCall EXCEPT !.op = "write", !.s = s, !.count = r.ret,
                           !.calls = r.calls]
  /\ UNCHANGED <<sox_globals, res, fs, SOX_IS_BIGENDIAN, neg>>

Seek(s) ==
  /\ ft[s].state = "open"
  /\ \E whence \in Whences, rc \in ReturnCodes :
       LET r == sox_seek(ft[s], whence, rc) IN
         /\ ft' = [ft EXCEPT ![s] = r.ft]
         /\ last' = [NoCall EXCEPT !.op = "seek", !.s = s, !.ret = r.ret,
                        !.calls = r.calls, !.whence = whence, !.pre = ft[s]]
  /\ UNCHANGED <<sox_globals, res, fs, SOX_IS_BIGENDIAN, neg>>

Close(s) ==
  /\ ft[s].state = "open"
  /\ \E env \in [seek_rc : ReturnCodes, hook_rc : ReturnCodes] :
       LET r == sox_close(ft[s], env) IN
         /\ ft' = [ft EXCEPT ![s] = [xcalloc_ft EXCEPT !.state = "closed"]]
         /\ res' = [res EXCEPT ![s] = Released(@, r.release)]
         /\ last' = [NoCall EXCEPT !.op = "close", !.s = s, !.ret = r.ret,
                        !.calls = r.calls, !.pre = ft[s]]
  /\ UNCHANGED <<sox_globals, fs, SOX_IS_BIGENDIAN, neg>>

Init ==
  /\ sox_globals = [stdin_in_use_by |-> NULL, stdout_in_use_by |-> NULL]
  /\ ft = [s \in Sessions |-> xcalloc_ft]
  /\ res = [s \in Sessions |-> ZeroRes]
  /\ fs = InitFs
  /\ SOX_IS_BIGENDIAN = FALSE
  /\ last = NoCall
  /\ neg = NegIdle

(* Spec: any interleaving of opens and closes of up to MaxSessions         *)
(* sessions, over the arguments that decide who holds a standard stream.   *)
Next ==
  \E s \in Sessions :
    \/ OpenRead(s, Narrow)
    \/ OpenWrite(s, Narrow)
    \/ Close(s)

Spec == Init /\ [][Next]_vars

(* SpecOne: the whole life of one session, over every argument and every   *)
(* answer of the environment.                                              *)
NextOne ==
  \/ OpenRead(1, Wide)
  \/ OpenWrite(1, Wide)
  \/ Read(1)
  \/ Write(1)
  \/ Seek(1)
  \/ Close(1)

SpecOne == Init /\ [][NextOne]_vars

(***************************************************************************)
(* SpecNeg: set_output_format on its own, over handlers with every         *)
(* channel restriction and every rate list, and over requested signals.    *)
(***************************************************************************)
Rates == {8000, 44100, 48000}

\* the lists of distinct rates of Rates, in every order, of up to MaxRates rates
RateLists ==
  {<<>>} \cup UNION {{q \in [1..n -> Rates] : \A i, j \in 1..n : i # j => q[i] # q[j]} :
                      n \in 1..min(MaxRates, Cardinality(Rates))}

NegFormats ==
  {<<>>, << [e |-> SOX_ENCODING_SIGN2, sizes |-> <<16, 24>>],
            [e |-> SOX_ENCODING_ULAW, sizes |-> <<8>>] >>}

NegHandlers ==
  {[ZeroHandler EXCEPT !.names = <<"fmt">>, !.flags = fl, !.write_rates = rl,
                       !.write_formats = wf] :
     fl \in SUBSET {"MONO", "STEREO", "QUAD"}, rl \in RateLists, wf \in NegFormats}

NegSignals ==
  [rate : {0, 8000, 40000, 44100, 50000}, precision : {0, 16}, channels : 0..4]

InitNeg ==
  /\ sox_globals = [stdin_in_use_by |-> NULL, stdout_in_use_by |-> NULL]
  /\ ft = [s \in Sessions |-> xcalloc_ft]
  /\ res = [s \in Sessions |-> ZeroRes]
  /\ fs = InitFs
  /\ SOX_IS_BIGENDIAN = FALSE
  /\ last = NoCall
  /\ \E h \in NegHandlers, sg \in NegSignals :
       neg = [phase |-> "asked",
              ft |-> [xcalloc_ft EXCEPT !.mode = "w", !.handler = h, !.signal = sg,
                                        !.encoding = sox_init_encodinginfo],
              out |-> xcalloc_ft, warns |-> <<>>]

Negotiate ==
  /\ neg.phase = "asked"
  /\ neg' = [neg EXCEPT !.phase = "done",
                        !.out = set_output_format(neg.ft).ft,
                        !.warns = set_output_format(neg.ft).warns]
  /\ UNCHANGED <<sox_globals, ft, res, fs, SOX_IS_BIGENDIAN, last>>

SpecNeg == InitNeg /\ [][Negotiate]_vars

(***************************************************************************)
(* Claims.                                                                 *)
(***************************************************************************)
Live(s) == ft[s].state = "open"
HoldsStdin == {s \in Sessions : Live(s) /\ ft[s].fp = "stdin"}
HoldsStdout == {s \in Sessions : Live(s) /\ ft[s].fp = "stdout"}

\* the step is a call of sox_open_read / sox_open_write on path "-"
OpenReadDashStep == last'.op = "open_read" /\ last'.path = "-"
                    /\ ft[last'.s].state = "unused" /\ ft'[last'.s].state # "unused"
OpenWriteDashStep == last'.op = "open_write" /\ last'.path = "-"
                     /\ ft[last'.s].state = "unused" /\ ft'[last'.s].state # "unused"

C2_SlotCleared ==
  /\ sox_globals.stdin_in_use_by # NULL => HoldsStdin # {}
  /\ sox_globals.stdout_in_use_by # NULL => HoldsStdout # {}

\* the last call was an open that failed
OpenFailed == last.op \in {"open_read", "open_write"} /\ last.why # ""

\* C3: an open that fails after partial setup returns no session, has closed
\* the stream it opened, and has released the filename and filetype copies
\* and the session object
C3_FailedOpenReleases ==
  /\ OpenFailed => last.ret = NULL /\ ft[last.s].state = "failed"
  /\ \A s \in Sessions :
       ft[s].state = "failed"
         => /\ res[s].fclose = res[s].fopen
            /\ res[s].filename_free = res[s].filename_alloc
            /\ res[s].filetype_free = res[s].filetype_alloc
            /\ res[s].ft_free = 1

\* an open failed in its start hook, after the stream was opened and the
\* filename and filetype were copied
C3_Witness ==
  /\ OpenFailed /\ last.calls # <<>> /\ last.calls[Len(last.calls)].rc = SOX_EOF
  /\ res[last.s].fopen = 1 /\ res[last.s].fclose = 1
  /\ res[last.s].filename_alloc = 1 /\ res[last.s].filetype_alloc = 1

Closed == last.op = "close"

\* C5: sox_close on a session, of either mode and whatever its stop hook
\* returned, closes the stream exactly once unless the handler bypasses
\* generic stream I/O, and releases filename, filetype, comments and the
\* session object exactly once
C5_CloseReleasesOnce ==
  /\ Closed
       => /\ ft[last.s].state = "closed"
          /\ res[last.s].fclose =
               (IF "NOSTDIO" \in last.pre.handler.flags THEN 0 ELSE 1)
          /\ res[last.s].filename_free = 1 /\ res[last.s].filename_alloc = 1
          /\ res[last.s].filetype_free = 1 /\ res[last.s].filetype_alloc = 1
          /\ res[last.s].comments_free = res[last.s].comments_alloc
          /\ res[last.s].ft_free = 1
  /\ \A s \in Sessions :
       ft[s].state = "closed"
         => /\ res[s].fclose <= 1 /\ res[s].ft_free = 1
            /\ res[s].filename_free = 1 /\ res[s].filetype_free = 1
            /\ res[s].comments_free = res[s].comments_alloc

\* a write session holding stdout and a comments copy was closed with its
\* stop hook failing
C5_Witness ==
  /\ Closed /\ last.pre.mode = "w" /\ last.pre.fp = "stdout"
  /\ last.ret = SOX_EOF /\ last.pre.comments # 0
  /\ res[last.s].fclose = 1 /\ res[last.s].comments_free = 1

\* the names of the callbacks the last call invoked, in order
HookNames == [i \in 1..Len(last.calls) |-> last.calls[i].hook]
NeedsPatch == last.pre.olength # last.pre.length /\ last.pre.seekable
PatchHook ==
  IF last.pre.handler.stopwrite THEN <<"stopwrite">>
  ELSE IF last.pre.handler.startwrite THEN <<"startwrite">> ELSE <<>>

Sought == last.op = "seek"
SeekSupported ==
  last.whence = SOX_SEEK_SET /\ last.pre.seekable /\ last.pre.handler.seek

\* C7: sox_seek invokes the handler's seek callback, and returns its
\* result, only when the mode is absolute, the session is seekable and the
\* handler has a seek callback; otherwise it fails without invoking any
\* callback; either way no session field changes and the session stays open
C7_SeekGuarded ==
  Sought
    => /\ ft[last.s] = last.pre /\ Live(last.s)
       /\ res[last.s].fclose = 0 /\ res[last.s].ft_free = 0
       /\ IF SeekSupported
          THEN /\ HookNames = <<"seek">>
               /\ last.ret = last.calls[1].rc
          ELSE last.calls = <<>> /\ last.ret = SOX_EOF

\* a relative seek was refused on a seekable session whose handler can seek
C7_Witness ==
  /\ Sought /\ last.whence # SOX_SEEK_SET
  /\ last.pre.seekable /\ last.pre.handler.seek
  /\ last.ret = SOX_EOF /\ last.calls = <<>>

\* C10: every session returned by a successful open has a non-zero rate, a
\* non-zero precision and a non-zero channel count
C10_SignalNonZero ==
  \A s \in Sessions :
    Live(s) => /\ ft[s].signal.rate # 0
               /\ ft[s].signal.precision # 0
               /\ ft[s].signal.channels # 0

\* the negotiation has run
Negotiated == neg.phase = "done"
ListedRates == {neg.ft.handler.write_rates[i] :
                  i \in 1..Len(neg.ft.handler.write_rates)}
GreaterRates == {r \in ListedRates : r > neg.ft.signal.rate}
Least(S) == CHOOSE r \in S : \A q \in S : r <= q
Greatest(S) == CHOOSE r \in S : \A q \in S : r >= q

\* C8: against a rate list, a requested (non-zero) rate that is listed is
\* kept and an unlisted one becomes the smallest listed rate above it, or the
\* largest listed rate when none is above it, in any list order; with no
\* list, rate 0 becomes the default rate and any other rate is kept
C8_RateNegotiation ==
  Negotiated
    => IF ListedRates = {}
       THEN neg.out.signal.rate =
              (IF neg.ft.signal.rate = 0 THEN SOX_DEFAULT_RATE ELSE neg.ft.signal.rate)
       ELSE /\ neg.ft.signal.rate \in ListedRates
               => neg.out.signal.rate = neg.ft.signal.rate
            /\ neg.ft.signal.rate # 0 /\ neg.ft.signal.rate \notin ListedRates
               => neg.out.signal.rate =
                    (IF GreaterRates # {} THEN Least(GreaterRates)
                     ELSE Greatest(ListedRates))

\* 40000 against the list 48000, 8000, 44100 gave 44100
C8_Witness ==
  /\ Negotiated /\ neg.ft.handler.write_rates = <<48000, 8000, 44100>>
  /\ neg.ft.signal.rate = 40000 /\ neg.out.signal.rate = 44100

Supported(flags) ==
  {n \in {1, 2, 4} : (n = 1 /\ "MONO" \in flags) \/ (n = 2 /\ "STEREO" \in flags)
                     \/ (n = 4 /\ "QUAD" \in flags)}
ChannelWarned ==
  \E i \in 1..Len(neg.warns) :
    neg.warns[i] \in {"can't encode mono", "can't encode stereo", "can't encode quad"}

\* C9: against a handler that restricts channel counts, a supported request
\* of 1, 2 or 4 is kept without a warning, and an unsupported one is replaced,
\* with a warning, by a supported count: stereo by quad else mono, quad by
\* stereo else mono, mono by a supported count; an unrestricted handler
\* keeps the count, except that 0 becomes 1
C9_ChannelNegotiation ==
  Negotiated
    => LET flags == neg.ft.handler.flags
           asked == neg.ft.signal.channels
           got == neg.out.signal.channels
       IN IF Supported(flags) = {}
          THEN got = (IF asked = 0 THEN 1 ELSE asked) /\ ~ChannelWarned
          ELSE /\ asked \in Supported(flags) => got = asked /\ ~ChannelWarned
               /\ asked \in {1, 2, 4} \ Supported(flags)
                    => /\ got \in Supported(flags) /\ ChannelWarned
                       /\ asked = 2 => got = (IF 4 \in Supported(flags) THEN 4 ELSE 1)
                       /\ asked = 4 => got = (IF 2 \in Supported(flags) THEN 2 ELSE 1)

\* stereo against a handler taking mono and quad became quad, with a warning
C9_Witness ==
  /\ Negotiated /\ neg.ft.handler.flags = {"MONO", "QUAD"}
  /\ neg.ft.signal.channels = 2 /\ neg.out.signal.channels = 4 /\ ChannelWarned

(***************************************************************************)
(* SpecFmt: the encoding and depth negotiation of set_output_format, over  *)
(* format lists in every order and every requested encoding, depth and     *)
(* precision.                                                              *)
(***************************************************************************)
FormatEntries ==
  {[e |-> SOX_ENCODING_SIGN2, sizes |-> <<16, 24>>],
   [e |-> SOX_ENCODING_SIGN2, sizes |-> <<24, 8, 16>>],
   [e |-> SOX_ENCODING_UNSIGNED, sizes |-> <<8>>],
   [e |-> SOX_ENCODING_FLOAT, sizes |-> <<32, 64>>],
   [e |-> SOX_ENCODING_ULAW, sizes |-> <<8>>],
   [e |-> SOX_ENCODING_GSM, sizes |-> <<>>]}

\* the lists of up to MaxFormats entries, no encoding twice, in every order
FormatLists ==
  UNION {{q \in [1..n -> FormatEntries] : \A i, j \in 1..n : i # j => q[i].e # q[j].e} :
           n \in 1..MaxFormats}

FmtEncodings ==
  [encoding : {SOX_ENCODING_UNKNOWN, SOX_ENCODING_SIGN2, SOX_ENCODING_UNSIGNED,
               SOX_ENCODING_FLOAT, SOX_ENCODING_ULAW, SOX_ENCODING_GSM},
   bits_per_sample : {0, 8, 16, 20, 32}]

FmtPrecisions == {0, 12, 16, 24, 32}

InitFmt ==
  /\ sox_globals = [stdin_in_use_by |-> NULL, stdout_in_use_by |-> NULL]
  /\ ft = [s \in Sessions |-> xcalloc_ft]
  /\ res = [s \in Sessions |-> ZeroRes]
  /\ fs = InitFs
  /\ SOX_IS_BIGENDIAN = FALSE
  /\ last = NoCall
  /\ \E wf \in FormatLists, en \in FmtEncodings, p \in FmtPrecisions :
       neg = [phase |-> "asked",
              ft |-> [xcalloc_ft EXCEPT
                        !.mode = "w",
                        !.handler = [ZeroHandler EXCEPT !.names = <<"fmt">>,
                                                        !.write_formats = wf],
                        !.signal = [rate |-> 8000, precision |-> p, channels |-> 1],
                        !.encoding = [sox_init_encodinginfo EXCEPT
                                        !.encoding = en.encoding,
                                        !.bits_per_sample = en.bits_per_sample]],
              out |-> xcalloc_ft, warns |-> <<>>]

SpecFmt == InitFmt /\ [][Negotiate]_vars

\* what the negotiation was asked, and what it chose
AskedFormats == neg.ft.handler.write_formats
AskedEncoding == neg.ft.encoding.encoding
AskedBits == neg.ft.encoding.bits_per_sample
AskedPrecision == neg.ft.signal.precision
GotEncoding == neg.out.encoding.encoding
GotBits == neg.out.encoding.bits_per_sample

\* the (encoding, depth) pairs a list holds; an encoding listed with no
\* depth stands for the pair with depth 0
ListedPairs(formats) ==
  UNION {IF formats[i].sizes = <<>> THEN {[e |-> formats[i].e, s |-> 0]}
         ELSE {[e |-> formats[i].e, s |-> formats[i].sizes[j]] :
                 j \in 1..Len(formats[i].sizes)} : i \in 1..Len(formats)}
GotPair == [e |-> GotEncoding, s |-> GotBits]
Achieves(pr) == sox_precision(pr.e, pr.s)

\* C11: after negotiation against a handler with a format list, the
\* session's (encoding, bits-per-sample) is a pair of that list, whatever
\* encoding, depth and precision were requested
C11_PairInList ==
  Negotiated /\ AskedFormats # <<>> => GotPair \in ListedPairs(AskedFormats)

\* C12: after negotiation against a handler with a format list, the
\* precision is the smaller of the requested precision and the precision
\* the chosen pair achieves
C12_PrecisionClamped ==
  Negotiated /\ AskedFormats # <<>>
    => /\ neg.out.signal.precision <= AskedPrecision
       /\ neg.out.signal.precision <= Achieves(GotPair)
       /\ neg.out.signal.precision \in {AskedPrecision, Achieves(GotPair)}

\* a request for 32 bits of precision ended at the 24 bits of the chosen pair
C12_Witness ==
  /\ Negotiated /\ AskedPrecision = 32
  /\ GotPair = [e |-> SOX_ENCODING_SIGN2, s |-> 24]
  /\ neg.out.signal.precision = 24

\* the depths listed for the requested encoding
AskedSizes ==
  LET k == FindEncoding(AskedFormats, AskedEncoding) IN
  IF k = 0 THEN {}
  ELSE {AskedFormats[k].sizes[j] : j \in 1..Len(AskedFormats[k].sizes)}
ReachingSizes ==
  {s \in AskedSizes : sox_precision(AskedEncoding, s) >= AskedPrecision}
SizeWarned == \E i \in 1..Len(neg.warns) : neg.warns[i] = "can't encode to size"

\* C19: a requested encoding that is listed is kept; a requested depth
\* listed for it is kept; otherwise (no depth given, or an unlisted depth,
\* which is warned about) the depth is the smallest listed depth of the
\* encoding that reaches the requested precision, or else the listed depth
\* of the highest precision
C19_GivenEncodingDepth ==
  Negotiated /\ AskedEncoding # SOX_ENCODING_UNKNOWN
             /\ FindEncoding(AskedFormats, AskedEncoding) # 0
    => /\ GotEncoding = AskedEncoding
       /\ AskedBits \in AskedSizes => GotBits = AskedBits /\ ~SizeWarned
       /\ AskedBits \notin AskedSizes
            => /\ SizeWarned <=> AskedBits # 0
               /\ IF AskedSizes = {} THEN GotBits = 0
                  ELSE IF ReachingSizes # {} THEN GotBits = Least(ReachingSizes)
                  ELSE /\ GotBits \in AskedSizes
                       /\ \A s \in AskedSizes :
                            sox_precision(AskedEncoding, s)
                              <= sox_precision(AskedEncoding, GotBits)

\* signed PCM with the unlisted depth 20 and precision 12, against the
\* depths 24, 8, 16: the depth became 16, with a warning
C19_Witness ==
  /\ Negotiated /\ AskedEncoding = SOX_ENCODING_SIGN2 /\ AskedBits = 20
  /\ AskedPrecision = 12 /\ AskedSizes = {8, 16, 24}
  /\ GotEncoding = SOX_ENCODING_SIGN2 /\ GotBits = 16 /\ SizeWarned

\* neither an encoding nor a depth is left after the drops
NothingGiven ==
  /\ AskedEncoding = SOX_ENCODING_UNKNOWN \/ FindEncoding(AskedFormats, AskedEncoding) = 0
  /\ AskedBits = 0 \/ FindSize(AskedFormats, AskedBits) = 0
LosslessReaching ==
  {pr \in ListedPairs(AskedFormats) :
     pr.e < SOX_ENCODING_LOSSLESS /\ Achieves(pr) >= AskedPrecision}
AnyReaching == {pr \in ListedPairs(AskedFormats) : Achieves(pr) >= AskedPrecision}
Shallowest(S) == {pr \in S : \A q \in S : pr.s <= q.s}

\* C20: with neither encoding nor depth given (or both dropped), the chosen
\* pair is the smallest-depth lossless pair reaching the requested
\* precision; if there is none, the smallest-depth pair of any listed
\* encoding reaching it; if there is none, the listed pair of the highest
\* precision
C20_SearchOrder ==
  Negotiated /\ AskedFormats # <<>> /\ NothingGiven
    => IF LosslessReaching # {} THEN GotPair \in Shallowest(LosslessReaching)
       ELSE IF AnyReaching # {} THEN GotPair \in Shallowest(AnyReaching)
       ELSE /\ GotPair \in ListedPairs(AskedFormats)
            /\ \A pr \in ListedPairs(AskedFormats) : Achieves(pr) <= Achieves(GotPair)

\* C18: the observed output length of a write session is 0 when it is
\* opened, grows in each sox_write by the count that call returns (nothing
\* when the handler has no write callback), and is changed by no other
\* operation before close
C18_OlengthAccumulates ==
  [][\A s \in Sessions :
       /\ ft[s].state = "unused" /\ Live(s)'
            => ft'[s].olength = 0
       /\ Live(s) /\ Live(s)'
            => /\ ft'[s].olength =
                    ft[s].olength + (IF last'.op = "write" /\ last'.s = s
                                     THEN last'.count ELSE 0)
               /\ last'.op = "write" /\ ~ft[s].handler.write => last'.count = 0]_vars

\* a second sox_write that wrote one sample brought the length to two
C18_Witness ==
  /\ last.op = "write" /\ last.count = 1 /\ Live(last.s)
  /\ ft[last.s].olength = 2

(***************************************************************************)
(* SpecOrder: set_endianness_if_not_already_set on its own, over every     *)
(* handler order flag, every caller option and both machine byte orders.   *)
(***************************************************************************)
Options == {SOX_OPTION_NO, SOX_OPTION_YES, SOX_OPTION_DEFAULT}

InitOrder ==
  /\ sox_globals = [stdin_in_use_by |-> NULL, stdout_in_use_by |-> NULL]
  /\ ft = [s \in Sessions |-> xcalloc_ft]
  /\ res = [s \in Sessions |-> ZeroRes]
  /\ fs = InitFs
  /\ SOX_IS_BIGENDIAN \in BOOLEAN
  /\ last = NoCall
  /\ \E fl \in SUBSET {"ENDIAN", "ENDBIG", "BIT_REV", "NIB_REV"},
        rb \in Options, rbits \in Options, rnib \in Options, opp \in BOOLEAN :
       neg = [phase |-> "asked",
              ft |-> [xcalloc_ft EXCEPT
                        !.handler = [ZeroHandler EXCEPT !.names = <<"fmt">>,
                                                        !.flags = fl],
                        !.encoding = [sox_init_encodinginfo EXCEPT
                                        !.reverse_bytes = rb,
                                        !.reverse_bits = rbits,
                                        !.reverse_nibbles = rnib,
                                        !.opposite_endian = opp]],
              out |-> xcalloc_ft, warns |-> <<>>]

ResolveOrder ==
  /\ neg.phase = "asked"
  /\ neg' = [neg EXCEPT
               !.phase = "resolved",
               !.out = [neg.ft EXCEPT !.encoding =
                          set_endianness_if_not_already_set(neg.ft).encoding],
               !.warns = set_endianness_if_not_already_set(neg.ft).reports]
  /\ UNCHANGED <<sox_globals, ft, res, fs, SOX_IS_BIGENDIAN, last>>

SpecOrder == InitOrder /\ [][ResolveOrder]_vars

\* the order resolution has run
Resolved == neg.phase = "resolved"
NothingOverridden ==
  /\ ~neg.ft.encoding.opposite_endian
  /\ neg.ft.encoding.reverse_bytes = SOX_OPTION_DEFAULT
  /\ neg.ft.encoding.reverse_bits = SOX_OPTION_DEFAULT
  /\ neg.ft.encoding.reverse_nibbles = SOX_OPTION_DEFAULT
\* the handler has a fixed byte order, and it is not the machine's
ForeignOrder ==
  /\ "ENDIAN" \in neg.ft.handler.flags
  /\ ("ENDBIG" \in neg.ft.handler.flags) # SOX_IS_BIGENDIAN

\* C17: with no opposite-endian request and no override, reverse-bytes is
\* true exactly when the handler's fixed byte order differs from the
\* machine's, reverse-bits is the handler's bit-reversed flag and
\* reverse-nibbles its nibble-reversed flag; in every case none of the
\* three is left unset
C17_OrderResolved ==
  Resolved
    => /\ neg.out.encoding.reverse_bytes \in {SOX_OPTION_NO, SOX_OPTION_YES}
       /\ neg.out.encoding.reverse_bits \in {SOX_OPTION_NO, SOX_OPTION_YES}
       /\ neg.out.encoding.reverse_nibbles \in {SOX_OPTION_NO, SOX_OPTION_YES}
       /\ NothingOverridden
            => /\ neg.out.encoding.reverse_bytes = SOX_OPTION_YES <=> ForeignOrder
               /\ neg.out.encoding.reverse_bits = SOX_OPTION_YES
                    <=> "BIT_REV" \in neg.ft.handler.flags
               /\ neg.out.encoding.reverse_nibbles = SOX_OPTION_YES
                    <=> "NIB_REV" \in neg.ft.handler.flags

\* a big-endian handler on a little-endian machine, nothing overridden:
\* bytes are reversed
C17_Witness ==
  /\ Resolved /\ NothingOverridden /\ ~SOX_IS_BIGENDIAN
  /\ {"ENDIAN", "ENDBIG"} \subseteq neg.ft.handler.flags
  /\ neg.out.encoding.reverse_bytes = SOX_OPTION_YES

(***************************************************************************)
(* sox_format_supports_encoding, and SpecQuery: the query on its own, over *)
(* paths, types, queried encodings and the content of its local session.   *)
(***************************************************************************)
\* lines 517-526: the scan of write_formats for (encoding, bits_per_sample);
\* only the first entry of the encoding is looked at
supports_scan(formats, encoding) ==
  LET k == FindEncoding(formats, encoding.encoding) IN
  /\ encoding.encoding # SOX_ENCODING_UNKNOWN
  /\ k # 0
  /\ \E j \in 1..Len(formats[k].sizes) :
       formats[k].sizes[j] # 0 /\ formats[k].sizes[j] = encoding.bits_per_sample

(* lines 500-528.  The local session is not initialised: sox_gettype reads *)
(* its mode (line 133), which holds whatever the stack held: stack_mode.    *)
sox_format_supports_encoding(path, filetype, encoding, stack_mode) ==
  LET g == sox_gettype([xcalloc_ft EXCEPT
                          !.filetype = IF filetype # NULL THEN filetype
                                       ELSE find_file_extension(path),
                          !.mode = stack_mode],
                       filetype = NULL)
  IN IF g.rc # SOX_SUCCESS \/ g.ft.handler.write_formats = <<>> THEN FALSE
     ELSE supports_scan(g.ft.handler.write_formats, encoding)

QueryPaths == {"a.wav", "c.gsm", "noext"}
QueryTypes == {NULL, "wav", "gsm", "raw", "sph", "bogus"}
\* what the uninitialised mode byte may hold: 'w', or anything else
StackModes == {"w", "other"}

InitQuery ==
  /\ sox_globals = [stdin_in_use_by |-> NULL, stdout_in_use_by |-> NULL]
  /\ ft = [s \in Sessions |-> xcalloc_ft]
  /\ res = [s \in Sessions |-> ZeroRes]
  /\ fs = InitFs
  /\ SOX_IS_BIGENDIAN = FALSE
  /\ last = NoCall
  /\ \E path \in QueryPaths, filetype \in QueryTypes, en \in FmtEncodings,
        m \in StackModes :
       neg = [phase |-> "asked", path |-> path, filetype |-> filetype,
              encoding |-> en, stack_mode |-> m, ret |-> FALSE]

Query ==
  /\ neg.phase = "asked"
  /\ neg' = [neg EXCEPT
               !.phase = "answered",
               !.ret = sox_format_supports_encoding(neg.path, neg.filetype,
                                                    neg.encoding, neg.stack_mode)]
  /\ UNCHANGED <<sox_globals, ft, res, fs, SOX_IS_BIGENDIAN, last>>

SpecQuery == InitQuery /\ [][Query]_vars

\* the query has returned
Answered == neg.phase = "answered"
\* the handler the type, or else the path's extension, names (none: ZeroHandler)
QueriedHandler ==
  IF neg.filetype # NULL THEN sox_find_format(neg.filetype, FALSE)
  ELSE IF find_file_extension(neg.path) # NULL
  THEN sox_find_format(find_file_extension(neg.path), TRUE)
  ELSE ZeroHandler

\* C13: sox_format_supports_encoding returns true exactly when the type
\* (explicit, or the path's extension) resolves to a handler whose format
\* list holds the queried encoding with the queried depth among its depths
C13_SupportsExactly ==
  Answered
    => (neg.ret <=> [e |-> neg.encoding.encoding, s |-> neg.encoding.bits_per_sample]
                      \in {pr \in ListedPairs(QueriedHandler.write_formats) : pr.s # 0})


(***************************************************************************)
(* detect_magic.  A byte is a one-character string, or a name for a byte   *)
(* that is no printable character (NUL, LF, SP, x1a, ...).  A rule is      *)
(* MAGIC(type, p2, l2, d2, p1, l1, d1) with l1 = Len(d1), l2 = Len(d2).    *)
(***************************************************************************)
MAGIC(type, p2, d2, p1, d1) ==
  [type |-> type, p2 |-> p2, d2 |-> d2, p1 |-> p1, d1 |-> d1]

\* lines 206-241, in table order
magic_rules ==
  << MAGIC("voc", 0, <<>>, 0, <<"C", "r", "e", "a", "t", "i", "v", "e", "SP", "V", "o", "i", "c", "e", "SP", "F", "i", "l", "e", "x1a">>),
     MAGIC("smp", 0, <<>>, 0, <<"S", "O", "U", "N", "D", "SP", "S", "A", "M", "P", "L", "E", "SP", "D", "A", "T", "A">>),
     MAGIC("wve", 0, <<>>, 0, <<"A", "L", "a", "w", "S", "o", "u", "n", "d", "F", "i", "l", "e", "*", "*">>),
     MAGIC("amr-wb", 0, <<>>, 0, <<"#", "!", "A", "M", "R", "-", "W", "B", "LF">>),
     MAGIC("prc", 0, <<>>, 0, <<"7", "NUL", "NUL", "x10", "m", "NUL", "NUL", "x10">>),
     MAGIC("sph", 0, <<>>, 0, <<"N", "I", "S", "T", "_", "1", "A">>),
     MAGIC("amr-nb", 0, <<>>, 0, <<"#", "!", "A", "M", "R", "LF">>),
     MAGIC("txw", 0, <<>>, 0, <<"L", "M", "8", "9", "5", "3">>),
     MAGIC("sndt", 0, <<>>, 0, <<"S", "O", "U", "N", "D", "x1a">>),
     MAGIC("vorbis", 0, <<"O", "g", "g", "S">>, 29, <<"v", "o", "r", "b", "i", "s">>),
     MAGIC("speex", 0, <<"O", "g", "g", "S">>, 28, <<"S", "p", "e", "e", "x", "NUL">>),
     MAGIC("hcom", 65, <<"F", "S", "S", "D">>, 128, <<"H", "C", "O", "M">>),
     MAGIC("wav", 0, <<"R", "I", "F", "F">>, 8, <<"W", "A", "V", "E">>),
     MAGIC("wav", 0, <<"R", "I", "F", "X">>, 8, <<"W", "A", "V", "E">>),
     MAGIC("aiff", 0, <<"F", "O", "R", "M">>, 8, <<"A", "I", "F", "F">>),
     MAGIC("aifc", 0, <<"F", "O", "R", "M">>, 8, <<"A", "I", "F", "C">>),
     MAGIC("8svx", 0, <<"F", "O", "R", "M">>, 8, <<"8", "S", "V", "X">>),
     MAGIC("maud", 0, <<"F", "O", "R", "M">>, 8, <<"M", "A", "U", "D">>),
     MAGIC("xa", 0, <<>>, 0, <<"X", "A", "NUL", "NUL">>),
     MAGIC("xa", 0, <<>>, 0, <<"X", "A", "I", "NUL">>),
     MAGIC("xa", 0, <<>>, 0, <<"X", "A", "J", "NUL">>),
     MAGIC("au", 0, <<>>, 0, <<".", "s", "n", "d">>),
     MAGIC("au", 0, <<>>, 0, <<"d", "n", "s", ".">>),
     MAGIC("au", 0, <<>>, 0, <<"NUL", "d", "s", ".">>),
     MAGIC("au", 0, <<>>, 0, <<".", "s", "d", "NUL">>),
     MAGIC("flac", 0, <<>>, 0, <<"f", "L", "a", "C">>),
     MAGIC("avr", 0, <<>>, 0, <<"2", "B", "I", "T">>),
     MAGIC("caf", 0, <<>>, 0, <<"c", "a", "f", "f">>),
     MAGIC("paf", 0, <<>>, 0, <<"SP", "p", "a", "f">>),
     MAGIC("sf", 0, <<>>, 0, <<"d", "xa3", "x01", "NUL">>),
     MAGIC("sf", 0, <<>>, 0, <<"NUL", "x01", "xa3", "d">>),
     MAGIC("sf", 0, <<>>, 0, <<"d", "xa3", "x02", "NUL">>),
     MAGIC("sf", 0, <<>>, 0, <<"NUL", "x02", "xa3", "d">>),
     MAGIC("sf", 0, <<>>, 0, <<"d", "xa3", "x03", "NUL">>),
     MAGIC("sf", 0, <<>>, 0, <<"NUL", "x03", "xa3", "d">>),
     MAGIC("sf", 0, <<>>, 0, <<"d", "xa3", "x04", "NUL">>) >>

\* lines 243-244: the rule tried only when the extension is "snd"; its
\* d1 is the two bytes of the literal "\0", its d2 the one byte of ""
sndr_rule == MAGIC("sndr", 7, <<"NUL">>, 0, <<"NUL", "NUL">>)


\* memcmp(data + p, d, Len(d)) == 0
memcmp_equal(data, p, d) ==
  \A i \in 1..Len(d) : data[p + i] = d[i]

\* lines 203-204: one MAGIC test on the buffer and the count read into it
magic_test(r, data, len) ==
  /\ len >= r.p1 + Len(r.d1)
  /\ memcmp_equal(data, r.p1, r.d1)
  /\ memcmp_equal(data, r.p2, r.d2)

\* line 242: ext && !strcasecmp(ext, "snd")
ext_is_snd(ext) ==
  ext \in {"snd", "SND", "Snd"}

\* lines 201-202: char data[256] holds whatever the stack held; sox_readbuf
\* overwrites its first len bytes with the start of the stream
DataSize == 256
magic_len(content) ==
  IF Len(content) < DataSize THEN Len(content) ELSE DataSize
magic_data(content, stack_byte) ==
  [i \in 1..DataSize |-> IF i <= magic_len(content) THEN content[i] ELSE stack_byte]

\* lines 199-246: the first rule of the table whose test passes; then, for
\* the extension "snd" only, the sndr rule; else NULL
detect_magic(content, stack_byte, ext) ==
  LET data == magic_data(content, stack_byte)
      len == magic_len(content)
      hits == {i \in 1..Len(magic_rules) : magic_test(magic_rules[i], data, len)}
  IN  IF hits # {}
        THEN magic_rules[CHOOSE i \in hits : \A j \in hits : i <= j].type
      ELSE IF ext_is_snd(ext) /\ magic_test(sndr_rule, data, len)
        THEN "sndr"
      ELSE NULL

\* the offsets into data that memcmp(data + p, d, Len(d)) must examine: from
\* p up to the first byte that differs
memcmp_reads(data, p, d) ==
  {p + i - 1 : i \in {k \in 1..Len(d) : \A m \in 1..(k - 1) : data[p + m] = d[m]}}

\* lines 203-204: the offsets one MAGIC test examines; && evaluates the
\* second memcmp only when the length test and the first memcmp passed
magic_test_reads(r, data, len) ==
  IF len < r.p1 + Len(r.d1) THEN {}
  ELSE IF memcmp_equal(data, r.p1, r.d1)
    THEN memcmp_reads(data, r.p1, r.d1) \cup memcmp_reads(data, r.p2, r.d2)
  ELSE memcmp_reads(data, r.p1, r.d1)

\* lines 205-243: the offsets examined by the tests made before detect_magic
\* returns
magic_reads(data, len, ext, hits) ==
  UNION {magic_test_reads(magic_rules[i], data, len) :
           i \in {k \in 1..Len(magic_rules) : \A h \in hits : k <= h}}
    \cup (IF hits = {} /\ ext_is_snd(ext)
            THEN magic_test_reads(sndr_rule, data, len) ELSE {})
detect_magic_reads(content, stack_byte, ext) ==
  magic_reads(magic_data(content, stack_byte), magic_len(content), ext,
              {i \in 1..Len(magic_rules) :
                 magic_test(magic_rules[i], magic_data(content, stack_byte),
                            magic_len(content))})

(***************************************************************************)
(* SpecMagic: the content sniffer on bounded streams.  A stream is filler  *)
(* bytes with a tag at offset 0, for container tags a form tag at offset   *)
(* 8, and possibly later marks, cut to one of several lengths.             *)
(***************************************************************************)
Put(seq, p, d) ==
  [i \in 1..Len(seq) |-> IF i > p /\ i <= p + Len(d) THEN d[i - p] ELSE seq[i]]

ContainerTags ==
  {<<"R", "I", "F", "F">>, <<"R", "I", "F", "X">>, <<"F", "O", "R", "M">>,
   <<"O", "g", "g", "S">>}
HeadTags ==
  {magic_rules[i].d1 : i \in {j \in 1..Len(magic_rules) : magic_rules[j].p1 = 0}}
    \cup ContainerTags \cup {<<>>, <<"NUL", "NUL">>}
FormTags ==
  {<<>>, <<"W", "A", "V", "E">>, <<"A", "I", "F", "F">>, <<"A", "I", "F", "C">>,
   <<"8", "S", "V", "X">>, <<"M", "A", "U", "D">>, <<"W", "A", "V", "X">>}
\* later marks: none, the two Ogg codec names, the two hcom marks
LaterMarks ==
  {"none", "vorbis", "speex", "hcom"}
PutMarks(seq, m) ==
  CASE m = "none" -> seq
    [] m = "vorbis" -> Put(seq, 29, <<"v", "o", "r", "b", "i", "s">>)
    [] m = "speex" -> Put(seq, 28, <<"S", "p", "e", "e", "x", "NUL">>)
    [] m = "hcom" -> Put(Put(seq, 65, <<"F", "S", "S", "D">>), 128, <<"H", "C", "O", "M">>)
StreamSize == 132
StreamLengths == {0, 1, 2, 5, 7, 8, 12, 35, StreamSize}
FillBytes == {"?", "NUL"}
StackBytes == {"?", "NUL"}
ExtHints == {NULL, "snd", "SND", "au"}

Stream(head, form, marks, fill, n) ==
  SubSeq(PutMarks(Put(Put([i \in 1..StreamSize |-> fill], 0, head), 8, form), marks), 1, n)

InitMagic ==
  /\ sox_globals = [stdin_in_use_by |-> NULL, stdout_in_use_by |-> NULL]
  /\ ft = [s \in Sessions |-> xcalloc_ft]
  /\ res = [s \in Sessions |-> ZeroRes]
  /\ fs = InitFs
  /\ SOX_IS_BIGENDIAN = FALSE
  /\ last = NoCall
  /\ \E head \in HeadTags, form \in FormTags, marks \in LaterMarks,
        fill \in FillBytes, n \in StreamLengths, sb \in StackBytes,
        ext \in ExtHints :
       /\ form # <<>> => head \in ContainerTags
       /\ neg = [phase |-> "unread", content |-> Stream(head, form, marks, fill, n),
                 stack_byte |-> sb, ext |-> ext, ret |-> NULL, examined |-> {}]

Sniff ==
  /\ neg.phase = "unread"
  /\ neg' = [neg EXCEPT !.phase = "sniffed",
                        !.ret = detect_magic(neg.content, neg.stack_byte, neg.ext),
                        !.examined = detect_magic_reads(neg.content, neg.stack_byte,
                                                        neg.ext)]
  /\ UNCHANGED <<sox_globals, ft, res, fs, SOX_IS_BIGENDIAN, last>>

SpecMagic == InitMagic /\ [][Sniff]_vars

\* the sniffer has returned
Sniffed == neg.phase = "sniffed"
\* the rules the sniffer goes through for this extension hint, in order
RulesFor(ext) ==
  IF ext_is_snd(ext) THEN Append(magic_rules, sndr_rule) ELSE magic_rules
\* both byte ranges of the rule lie in the prefix read and hold its literals
MatchesPrefix(r, prefix) ==
  /\ r.p1 + Len(r.d1) <= Len(prefix)
  /\ r.p2 + Len(r.d2) <= Len(prefix)
  /\ memcmp_equal(prefix, r.p1, r.d1)
  /\ memcmp_equal(prefix, r.p2, r.d2)
PrefixMatches(ext, prefix) ==
  {i \in 1..Len(RulesFor(ext)) : MatchesPrefix(RulesFor(ext)[i], prefix)}
PrefixHolds(prefix, p, d) ==
  p + Len(d) <= Len(prefix) /\ memcmp_equal(prefix, p, d)

\* C16: the sniffer returns the type of the first rule, in table order, whose
\* primary and secondary byte ranges both match the prefix read, and no type
\* when no rule matches; so "RIFF" + 4 bytes + "WAVE" yields wav and
\* "FORM" + 4 bytes + "AIFF" yields aiff, unless an earlier rule matches
C16_FirstMatch ==
  Sniffed =>
    LET m == PrefixMatches(neg.ext, neg.content)
        first == CHOOSE i \in m : \A j \in m : i <= j
    IN  /\ neg.ret = IF m = {} THEN NULL ELSE RulesFor(neg.ext)[first].type
        /\ ( /\ PrefixHolds(neg.content, 0, <<"R", "I", "F", "F">>)
             /\ PrefixHolds(neg.content, 8, <<"W", "A", "V", "E">>)
             /\ ~PrefixHolds(neg.content, 128, <<"H", "C", "O", "M">>) )
           => neg.ret = "wav"
        /\ ( /\ PrefixHolds(neg.content, 0, <<"F", "O", "R", "M">>)
             /\ PrefixHolds(neg.content, 8, <<"A", "I", "F", "F">>)
             /\ ~PrefixHolds(neg.content, 128, <<"H", "C", "O", "M">>) )
           => neg.ret = "aiff"


(***************************************************************************)
(* The typed transfer primitives, lines 654-809.  A value of an integer or *)
(* floating type is its bit pattern written as a base-256 numeral, most    *)
(* significant digit first, with as many digits as the C type has bytes;   *)
(* uint24_t is a 4-byte type.  In memory, and so in the bytes handed to    *)
(* sox_writebuf or taken from sox_readbuf, the digits lie in the machine's *)
(* order.                                                                  *)
(***************************************************************************)
IoTypes == {"b", "w", "3", "dw", "f", "df"}
\* the size argument of READ_FUNC / WRITE_FUNC: bytes per element in the stream
io_size(type) ==
  CASE type = "b" -> 1 [] type = "w" -> 2 [] type = "3" -> 3
    [] type = "dw" -> 4 [] type = "f" -> 4 [] type = "df" -> 8

ReverseSeq(s) ==
  [i \in 1..Len(s) |-> s[Len(s) + 1 - i]]
\* the bytes of an object of the value, lowest address first, and back
object_bytes(v, bigendian) ==
  IF bigendian THEN v ELSE ReverseSeq(v)
object_value(bytes, bigendian) ==
  IF bigendian THEN bytes ELSE ReverseSeq(bytes)

\* cswap[ub]: the table holding each byte with its bits in reverse order
cswap(ub) ==
  (ub % 2) * 128 + ((ub \div 2) % 2) * 64 + ((ub \div 4) % 2) * 32
    + ((ub \div 8) % 2) * 16 + ((ub \div 16) % 2) * 8 + ((ub \div 32) % 2) * 4
    + ((ub \div 64) % 2) * 2 + ((ub \div 128) % 2)
\* sox_swapw, sox_swapdw, sox_swapdf, sox_swapf: the value with its bytes in
\* reverse order
sox_swapw(uw) == ReverseSeq(uw)
sox_swapdw(udw) == ReverseSeq(udw)
sox_swapdf(df) == ReverseSeq(df)
sox_swapf(f) == ReverseSeq(f)

\* a sox_option_t tested as a C condition, and compared as an integer
option_set(o) == o # SOX_OPTION_NO
option_int(o) ==
  CASE o = SOX_OPTION_NO -> 0 [] o = SOX_OPTION_YES -> 1 [] OTHER -> 2
bool_int(b) == IF b THEN 1 ELSE 0

\* lines 654-660
nibble_swap(ub) ==
  ((ub % 16) * 16) + (ub \div 16)
TWIDDLE_BYTE(ub, encoding) ==
  IF option_set(encoding.reverse_bits)
  THEN IF option_set(encoding.reverse_nibbles)
         THEN <<nibble_swap(cswap(ub[1]))>> ELSE <<cswap(ub[1])>>
  ELSE IF option_set(encoding.reverse_nibbles)
         THEN <<nibble_swap(ub[1])>> ELSE ub

\* lines 662-664, instantiated for w, dw and df
TWIDDLE_WORD(uw, type, encoding) ==
  IF option_set(encoding.reverse_bytes)
  THEN CASE type = "w" -> sox_swapw(uw)
         [] type = "dw" -> sox_swapdw(uw)
         [] type = "df" -> sox_swapdf(uw)
  ELSE uw

\* lines 666-668
TWIDDLE_FLOAT(f, encoding) ==
  IF option_set(encoding.reverse_bytes) THEN sox_swapf(f) ELSE f

\* the twiddle argument of lines 703-708 and 772-777
twiddle(v, type, encoding) ==
  CASE type = "b" -> TWIDDLE_BYTE(v, encoding)
    [] type = "f" -> TWIDDLE_FLOAT(v, encoding)
    [] OTHER -> TWIDDLE_WORD(v, type, encoding)

\* lines 684-686: p is three bytes of the stream; the result a uint24_t
sox_unpack3_little(p, encoding, bigendian) ==
  <<0, p[3], p[2], p[1]>>
sox_unpack3(p, encoding, bigendian) ==
  IF option_int(encoding.reverse_bytes) = bool_int(bigendian)
  THEN <<0, p[3], p[2], p[1]>>
  ELSE <<0, p[1], p[2], p[3]>>

\* lines 752-755: v is a uint24_t; the result three bytes for the stream
sox_pack3(v, encoding, bigendian) ==
  IF option_int(encoding.reverse_bytes) = bool_int(bigendian)
  THEN <<v[4], v[3], v[2]>>
  ELSE <<v[2], v[3], v[4]>>

\* the buffer after the loop of lines 745-746
twiddled(buf, type, encoding) ==
  [n \in 1..Len(buf) |-> twiddle(buf[n], type, encoding)]

RECURSIVE concat_bytes(_)
concat_bytes(chunks) ==
  IF chunks = <<>> THEN <<>> ELSE Head(chunks) \o concat_bytes(Tail(chunks))

\* lines 740-749, WRITE_FUNC: the caller's buffer after the call and the
\* bytes handed to sox_writebuf
WRITE_FUNC(type, buf, encoding, bigendian) ==
  [buf |-> twiddled(buf, type, encoding),
   data |-> concat_bytes([n \in 1..Len(buf) |->
              object_bytes(twiddle(buf[n], type, encoding), bigendian)])]

\* lines 759-770, WRITE_FUNC_PACK
WRITE_FUNC_PACK(buf, encoding, bigendian) ==
  [buf |-> buf,
   data |-> concat_bytes([n \in 1..Len(buf) |-> sox_pack3(buf[n], encoding, bigendian)])]

\* lines 772-777: sox_write_<type>_buf up to its call of sox_writebuf
sox_write_buf(type, buf, encoding, bigendian) ==
  IF type = "3" THEN WRITE_FUNC_PACK(buf, encoding, bigendian)
  ELSE WRITE_FUNC(type, buf, encoding, bigendian)

\* sox_readbuf: up to len bytes from the stream's position; none when the
\* read fails
sox_readbuf(stream, pos, len, ioerr) ==
  IF ioerr \/ pos >= Len(stream) THEN <<>>
  ELSE SubSeq(stream, pos + 1, IF pos + len < Len(stream) THEN pos + len ELSE Len(stream))

\* lines 672-681, READ_FUNC: the count returned and the elements stored
READ_FUNC(type, data, encoding, bigendian) ==
  [n \in 1..(Len(data) \div io_size(type)) |->
     twiddle(object_value(SubSeq(data, (n - 1) * io_size(type) + 1, n * io_size(type)),
                          bigendian), type, encoding)]

\* lines 690-701, READ_FUNC_UNPACK
READ_FUNC_UNPACK(data, encoding, bigendian) ==
  [n \in 1..(Len(data) \div 3) |->
     sox_unpack3(SubSeq(data, (n - 1) * 3 + 1, n * 3), encoding, bigendian)]

\* lines 703-708: sox_read_<type>_buf after its call of sox_readbuf
sox_read_buf(type, data, encoding, bigendian) ==
  IF type = "3" THEN READ_FUNC_UNPACK(data, encoding, bigendian)
  ELSE READ_FUNC(type, data, encoding, bigendian)

\* line 719
premature_eof == "premature EOF"
\* what errno may hold when a read comes back short: 0, or a stale code
Errnos == {SOX_SUCCESS, "EIO"}

\* the session's error state after sox_readbuf: a failed read sets the
\* stream's error indicator and sox_readbuf records it
readbuf_mark(io, ioerr, errno) ==
  IF ioerr
  THEN [io EXCEPT !.ferror = TRUE, !.sox_errno = errno, !.sox_errstr = "sox_readbuf"]
  ELSE io

\* lines 710-717, READ1_FUNC after the buffered read of one element has
\* returned count: the result, and the error state
READ1_FUNC_unmarked(io, count, errno) ==
  [ret |-> IF count = 1 THEN SOX_SUCCESS ELSE SOX_EOF, io |-> io]
READ1_FUNC(io, count, errno) ==
  IF count = 1 THEN [ret |-> SOX_SUCCESS, io |-> io]
  ELSE IF ~io.ferror
    THEN [ret |-> SOX_EOF,
          io |-> [io EXCEPT !.sox_errno = errno, !.sox_errstr = premature_eof]]
  ELSE [ret |-> SOX_EOF, io |-> io]


(***************************************************************************)
(* SpecIO: one session's stream written once by a buffered typed write and *)
(* then read back by buffered and single-element typed reads, under every  *)
(* resolved order policy and on both machine byte orders.                  *)
(***************************************************************************)
IoValues(type) ==
  CASE type = "b" -> {<<1>>, <<18>>, <<200>>}
    [] type = "w" -> {<<1, 2>>, <<255, 0>>, <<128, 129>>}
    [] type = "3" -> {<<0, 1, 2, 3>>, <<127, 255, 0, 128>>, <<0, 0, 0, 0>>}
    [] type = "dw" -> {<<1, 2, 3, 4>>, <<255, 0, 0, 128>>, <<0, 0, 0, 0>>}
    [] type = "f" -> {<<63, 128, 0, 0>>, <<192, 73, 15, 219>>, <<0, 0, 0, 0>>}
    [] type = "df" -> {<<63, 240, 0, 0, 0, 0, 0, 0>>,
                       <<192, 9, 33, 251, 84, 68, 45, 24>>,
                       <<0, 0, 0, 0, 0, 0, 0, 0>>}
IoBuffers(type) ==
  UNION {[1..n -> IoValues(type)] : n \in 1..MaxElems}
ResolvedOptions == {SOX_OPTION_NO, SOX_OPTION_YES}
NoIoError == [ferror |-> FALSE, sox_errno |-> SOX_SUCCESS, sox_errstr |-> ""]

InitIO ==
  /\ sox_globals = [stdin_in_use_by |-> NULL, stdout_in_use_by |-> NULL]
  /\ ft = [s \in Sessions |-> xcalloc_ft]
  /\ res = [s \in Sessions |-> ZeroRes]
  /\ fs = InitFs
  /\ SOX_IS_BIGENDIAN \in BOOLEAN
  /\ last = NoCall
  /\ \E type \in IoTypes, rb \in ResolvedOptions, rbits \in ResolvedOptions,
        rnib \in ResolvedOptions :
       \E buf \in IoBuffers(type) :
         neg = [phase |-> "fresh", type |-> type,
                encoding |-> [reverse_bytes |-> rb, reverse_bits |-> rbits,
                              reverse_nibbles |-> rnib],
                orig |-> buf, buf |-> buf, stream |-> <<>>, pos |-> 0,
                io |-> NoIoError, op |-> "none", req |-> 0, count |-> 0,
                out |-> <<>>, ret |-> NULL, pre_pos |-> 0, pre_io |-> NoIoError,
                ioerr |-> FALSE]

\* sox_write_<type>_buf(ft, buf, Len(buf)); sox_writebuf takes all the bytes,
\* all but the last, or none
WriteBuf ==
  /\ neg.phase = "fresh"
  /\ \E nwritten \in {0, Len(neg.buf) * io_size(neg.type) - 1,
                      Len(neg.buf) * io_size(neg.type)} :
       neg' = [neg EXCEPT
                 !.phase = "written", !.op = "write_buf", !.req = Len(neg.buf),
                 !.buf = sox_write_buf(neg.type, neg.buf, neg.encoding,
                                       SOX_IS_BIGENDIAN).buf,
                 !.stream = SubSeq(sox_write_buf(neg.type, neg.buf, neg.encoding,
                                                 SOX_IS_BIGENDIAN).data, 1, nwritten),
                 !.count = nwritten \div io_size(neg.type)]
  /\ UNCHANGED <<sox_globals, ft, res, fs, SOX_IS_BIGENDIAN, last>>

\* reads go on until one comes back short
MayRead ==
  /\ neg.phase \in {"written", "reading"}
  /\ neg.op \in {"read_buf", "read1"} => neg.count = neg.req

\* sox_read_<type>_buf(ft, buf, len)
ReadBuf ==
  /\ MayRead
  /\ \E len \in 1..(MaxElems + 1), ioerr \in BOOLEAN, errno \in Errnos :
       neg' = [neg EXCEPT
                 !.phase = "reading", !.op = "read_buf", !.req = len,
                 !.ioerr = ioerr, !.pre_pos = neg.pos, !.pre_io = neg.io,
                 !.out = sox_read_buf(neg.type,
                           sox_readbuf(neg.stream, neg.pos, len * io_size(neg.type), ioerr),
                           neg.encoding, SOX_IS_BIGENDIAN),
                 !.count = Len(sox_readbuf(neg.stream, neg.pos,
                                 len * io_size(neg.type), ioerr)) \div io_size(neg.type),
                 !.pos = neg.pos + Len(sox_readbuf(neg.stream, neg.pos,
                                         len * io_size(neg.type), ioerr)),
                 !.io = readbuf_mark(neg.io, ioerr, errno),
                 !.ret = NULL]
  /\ UNCHANGED <<sox_globals, ft, res, fs, SOX_IS_BIGENDIAN, last>>

\* sox_read<type>(ft, &datum)
Read1 ==
  /\ MayRead
  /\ \E ioerr \in BOOLEAN, errno \in Errnos :
       neg' = [neg EXCEPT
                 !.phase = "reading", !.op = "read1", !.req = 1,
                 !.ioerr = ioerr, !.pre_pos = neg.pos, !.pre_io = neg.io,
                 !.out = sox_read_buf(neg.type,
                           sox_readbuf(neg.stream, neg.pos, io_size(neg.type), ioerr),
                           neg.encoding, SOX_IS_BIGENDIAN),
                 !.count = Len(sox_readbuf(neg.stream, neg.pos,
                                 io_size(neg.type), ioerr)) \div io_size(neg.type),
                 !.pos = neg.pos + Len(sox_readbuf(neg.stream, neg.pos,
                                         io_size(neg.type), ioerr)),
                 !.io = READ1_FUNC(readbuf_mark(neg.io, ioerr, errno),
                          Len(sox_readbuf(neg.stream, neg.pos,
                                io_size(neg.type), ioerr)) \div io_size(neg.type),
                          errno).io,
                 !.ret = READ1_FUNC(readbuf_mark(neg.io, ioerr, errno),
                           Len(sox_readbuf(neg.stream, neg.pos,
                                 io_size(neg.type), ioerr)) \div io_size(neg.type),
                           errno).ret]
  /\ UNCHANGED <<sox_globals, ft, res, fs, SOX_IS_BIGENDIAN, last>>

SpecIO == InitIO /\ [][WriteBuf \/ ReadBuf \/ Read1]_vars


\* the call that has just returned was a read that met no I/O error
CleanRead(op) == neg.op = op /\ ~neg.ioerr
\* the write put every element into the stream
WroteAll == Len(neg.stream) = Len(neg.orig) * io_size(neg.type)
\* complete elements between the position the read started at and the end
ElementsLeft == (Len(neg.stream) - neg.pre_pos) \div io_size(neg.type)
\* what a value reads back as: itself, for the 3-byte width its low 24 bits
ReadBack(type, v) ==
  IF type = "3" THEN <<0, v[2], v[3], v[4]>> ELSE v

\* C14: for each element width and each resolved order policy, on either
\* machine byte order, a buffered write of n elements followed by a buffered
\* read of n elements from the start of the emitted bytes returns n and the
\* original values (for the 3-byte width their low 24 bits)
C14_RoundTrip ==
  (CleanRead("read_buf") /\ WroteAll /\ neg.pre_pos = 0 /\ neg.req = Len(neg.orig))
    => /\ neg.count = Len(neg.orig)
       /\ neg.out = [n \in 1..Len(neg.orig) |-> ReadBack(neg.type, neg.orig[n])]

C14_Witness ==
  /\ CleanRead("read_buf") /\ WroteAll /\ neg.pre_pos = 0 /\ neg.req = Len(neg.orig)
  /\ neg.type = "3" /\ neg.encoding.reverse_bytes = SOX_OPTION_YES /\ ~SOX_IS_BIGENDIAN
  /\ Len(neg.orig) = 2 /\ neg.orig[1] = <<127, 255, 0, 128>>
  /\ neg.out[1] = <<0, 255, 0, 128>> /\ neg.stream[1] = 255

DefaultReverseBytes == OptionOf(ForeignOrder)
DefaultReverseBits == OptionOf("BIT_REV" \in neg.ft.handler.flags)
DefaultReverseNibbles == OptionOf("NIB_REV" \in neg.ft.handler.flags)
\* one of the diagnostics was emitted
Reported(msgs) == \E i \in 1..Len(neg.warns) : neg.warns[i] \in msgs
ByteOrderReports ==
  {"overriding file-type byte-order", "overriding machine byte-order"}

\* C21: order resolution emits the byte-order, bit-order or nibble-order
\* diagnostic exactly when the resolved value of that field differs from the
\* value the handler's flags imply; with nothing overridden it emits none;
\* and it changes nothing of the session but the three order fields, so it
\* marks no error
C21_DiagnosticExact ==
  Resolved
    => /\ Reported(ByteOrderReports)
            <=> neg.out.encoding.reverse_bytes # DefaultReverseBytes
       /\ Reported({"overriding file-type bit-order"})
            <=> neg.out.encoding.reverse_bits # DefaultReverseBits
       /\ Reported({"overriding file-type nibble-order"})
            <=> neg.out.encoding.reverse_nibbles # DefaultReverseNibbles
       /\ NothingOverridden => neg.warns = <<>>
       /\ neg.out = [neg.ft EXCEPT !.encoding.reverse_bytes = neg.out.encoding.reverse_bytes,
                                   !.encoding.reverse_bits = neg.out.encoding.reverse_bits,
                                   !.encoding.reverse_nibbles = neg.out.encoding.reverse_nibbles]
       /\ neg.out.sox_errno = SOX_SUCCESS

\* bit order forced on for a handler that does not store reversed bits
C21_Witness ==
  /\ Resolved
  /\ "BIT_REV" \notin neg.ft.handler.flags
  /\ neg.ft.encoding.reverse_bits = SOX_OPTION_YES
  /\ neg.ft.encoding.reverse_bytes = SOX_OPTION_DEFAULT
  /\ neg.ft.encoding.reverse_nibbles = SOX_OPTION_DEFAULT
  /\ ~neg.ft.encoding.opposite_endian
  /\ neg.warns = <<"overriding file-type bit-order">>

\* the session as asked, but with the byte order left unset
ByteOrderUnset ==
  [neg.ft EXCEPT !.encoding.opposite_endian = FALSE,
                 !.encoding.reverse_bytes = SOX_OPTION_DEFAULT]
Negated(o) == IF o = SOX_OPTION_YES THEN SOX_OPTION_NO ELSE SOX_OPTION_YES

\* C25: for every combination of handler flags and machine byte order, and
\* whatever explicit reverse-bytes value the caller also gave, reverse-bytes
\* resolved under an opposite-endian request is the negation of the value
\* resolved with the byte order left unset, which is "reverse exactly when
\* the handler's fixed order differs from the machine's"
C25_OppositeNegates ==
  (Resolved /\ neg.ft.encoding.opposite_endian)
    => /\ neg.out.encoding.reverse_bytes = OptionOf(~ForeignOrder)
       /\ neg.out.encoding.reverse_bytes
            = Negated(set_endianness_if_not_already_set(ByteOrderUnset).encoding.reverse_bytes)

\* opposite-endian asked together with an explicit "do not reverse", for a
\* little-endian handler on a little-endian machine: the bytes are reversed
C25_Witness ==
  /\ Resolved /\ neg.ft.encoding.opposite_endian
  /\ neg.ft.encoding.reverse_bytes = SOX_OPTION_NO
  /\ "ENDIAN" \in neg.ft.handler.flags /\ "ENDBIG" \notin neg.ft.handler.flags
  /\ ~SOX_IS_BIGENDIAN
  /\ neg.out.encoding.reverse_bytes = SOX_OPTION_YES

\* C24: the content sniffer examines only bytes that were read: every offset
\* a signature test looks at lies below the number of bytes read
C24_ReadsWithinPrefix ==
  Sniffed => \A off \in neg.examined : off < magic_len(neg.content)

(***************************************************************************)
(* SpecDetect: sox_open_read over every path, among them regular files     *)
(* whose content names another type than their extension, or a type no     *)
(* handler has, and a fifo with an extension.                              *)
(***************************************************************************)
Probing ==
  [Wide EXCEPT !.paths = Paths, !.magics = {NULL, "wav", "flac"}]

NextDetect ==
  \/ OpenRead(1, Probing)
  \/ Close(1)

SpecDetect == Init /\ [][NextDetect]_vars

\* sox_open_read has just returned
OpenedRead == last.op = "open_read"
\* it got as far as having a stream (or a handler that needs none)
StreamOpened ==
  last.why \notin {"no handler for given file type", "stdin already in use",
                   "can't open input file"}
\* it got as far as the test for a read capability
HandlerResolved ==
  /\ StreamOpened
  /\ last.why \notin {"no handler for detected file type", "can't determine type",
                      "no handler for file extension"}

\* C22: sox_open_read with an explicit type uses that type's handler and
\* never sniffs; with none it sniffs exactly when the stream is seekable, a
\* sniffed type decides the handler and the extension is not consulted, and
\* the extension (looked up as an extension) decides only when nothing was
\* sniffed; a handler with neither start-read nor read callback makes the
\* open fail with no handler callback invoked
C22_HandlerPrecedence ==
  OpenedRead
    => /\ last.filetype # NULL
            => /\ ~last.sniffed
               /\ StreamOpened => last.handler = sox_find_format(last.filetype, FALSE)
               /\ last.ret # NULL => ft[last.s].filetype = last.filetype
       /\ (last.filetype = NULL /\ StreamOpened)
            => /\ last.sniffed <=> last.seekable
               /\ last.path # "-" => (last.seekable <=> IsRegular(fs[last.path]))
               /\ ~last.sniffed => last.detected = NULL
               /\ last.detected # NULL
                    => /\ last.handler = sox_find_format(last.detected, FALSE)
                       /\ last.why \notin {"can't determine type",
                                           "no handler for file extension"}
                       /\ last.ret # NULL => ft[last.s].filetype = last.detected
               /\ last.detected = NULL
                    => IF find_file_extension(last.path) = NULL
                       THEN last.why = "can't determine type"
                       ELSE /\ last.handler
                                 = sox_find_format(find_file_extension(last.path), TRUE)
                            /\ last.ret # NULL
                                 => ft[last.s].filetype = find_file_extension(last.path)
       /\ (HandlerResolved /\ ~last.handler.startread /\ ~last.handler.read)
            => last.ret = NULL /\ last.calls = <<>>
       /\ last.ret # NULL => last.handler.startread \/ last.handler.read

\* a regular file named d.au whose content is a wav file opens as wav
C22_Witness ==
  /\ OpenedRead /\ last.path = "d.au" /\ last.filetype = NULL
  /\ last.sniffed /\ last.detected = "wav" /\ last.ret # NULL
  /\ ft[1].filetype = "wav" /\ ft[1].handler.names = <<"wav">>

\* the step is a call of sox_open_write on session last'.s
OpenWriteStep ==
  /\ last'.op = "open_write"
  /\ ft[last'.s].state = "unused" /\ ft'[last'.s].state # "unused"
\* that call asked the overwrite callback
AskedOverwrite ==
  \E i \in 1..Len(last'.calls) : last'.calls[i].hook = "overwrite_permitted"
\* that call named a file, its handler uses generic stream I/O, and before
\* the call the path named a regular file
RegularTarget ==
  /\ last'.path \notin {NULL, "-"}
  /\ last'.why \notin {"no path or no signal", "unknown or unwritable file type"}
  /\ "NOSTDIO" \notin last'.handler.flags
  /\ IsRegular(fs[last'.path])

\* C23: sox_open_write asks the overwrite callback only when the path is not
\* "-", the handler uses generic stream I/O and the path names an existing
\* regular file (and then always, if a callback was given); a refusal makes
\* the open fail; with no callback an existing regular file is opened for
\* writing, and so emptied, without being asked
C23_OverwriteConfirm ==
  [][OpenWriteStep
       => /\ AskedOverwrite <=> (RegularTarget /\ last'.overwrite # "none")
          /\ (AskedOverwrite /\ last'.overwrite = "deny")
               => /\ last'.ret = NULL
                  /\ last'.why = "permission to overwrite denied"
          /\ (RegularTarget /\ last'.overwrite = "none")
               => /\ last'.why # "permission to overwrite denied"
                  /\ last'.why # "can't open output file"
                       => fs'[last'.path] = "truncated"]_vars

\* an existing regular file was opened for writing with no callback given
C23_Witness ==
  /\ last.op = "open_write" /\ last.path = "a.wav" /\ last.overwrite = "none"
  /\ last.ret # NULL /\ last.calls # <<>>
  /\ \A i \in 1..Len(last.calls) : last.calls[i].hook # "overwrite_permitted"
  /\ fs["a.wav"] = "truncated" /\ Live(1)

\* C26: a sox_open_write that fails because the file type is unknown or not
\* writable, or because the overwrite was refused, leaves the file system and
\* the standard-stream slots as they were and has opened no stream
C26_FailedBeforeStream ==
  [][(OpenWriteStep /\ last'.why \in {"unknown or unwritable file type",
                                      "permission to overwrite denied"})
       => /\ last'.ret = NULL
          /\ fs' = fs
          /\ sox_globals' = sox_globals
          /\ res'[last'.s].fopen = 0]_vars

\* the overwrite of a regular file was refused: the file still has its content
C26_Witness ==
  /\ last.op = "open_write" /\ last.path = "a.wav"
  /\ last.why = "permission to overwrite denied"
  /\ fs["a.wav"] = "regular" /\ res[1].fopen = 0
  /\ sox_globals.stdout_in_use_by = NULL
============================================================================
